---- MODULE Spec2Model ----
(***************************************************************************)
(* Memory Forge: the knowledge index (tools/embeddings).                   *)
(*                                                                         *)
(* The model follows sync.ts (discovery, change detection, sync), the db   *)
(* module (file records, chunks, retention), the search module and the    *)
(* forge module (classification, hashing, saveKnowledge), and the tool     *)
(* handlers of mcp-server.ts / index.ts that call them.                    *)
(*                                                                         *)
(* Texts are abstract: a file content is one of a few named versions, a    *)
(* hash is the pair <<algorithm, hashed text>> (SHA-256 taken as           *)
(* injective), a vector is the id of the model that produced it.  Paths    *)
(* are sequences of tokens ("knowledge", "/", "a", ".md") so that the      *)
(* string tests of the classifier are computed, not assumed.               *)
(***************************************************************************)
EXTENDS Integers, Sequences, FiniteSets, TLC

(***************************************************************************)
(* Bounds                                                                  *)
(***************************************************************************)
MaxAccess == 1
MaxClock == 2
MaxFilesCfg == 1
MaxAgeCfg == 1
RetMaxFiles == 2
RetMaxAge == 1
RetMaxStamp == 2
RetMaxAccess == 1
MaxDepth == 2
MaxCallers == 2
MaxTextLen == 3

(***************************************************************************)
(* Program constants                                                       *)
(***************************************************************************)
DEFAULT_IMPORTANCE == 5
DEFAULT_PROTECT == 8
DEFAULT_LIMIT == 5
THRESHOLD_PERMILLE == 300

undefined == -1

(***************************************************************************)
(* Paths                                                                   *)
(***************************************************************************)
ProjectRoot == "/proj"
\* where the project directory was before it was moved to ProjectRoot
OldRoot == "/old"

KnowA == <<"knowledge", "/", "a", ".md">>
KnowB == <<"knowledge", "/", "b", ".md">>
ClaudeMd == <<"CLAUDE", ".md">>
SkillMd == <<".claude", "/", "skills", "/", "x", "/", "SKILL", ".md">>
DocsNote == <<"docs", "/", "knowledge", "/", "n", ".md">>

KnowledgePaths == {KnowA, KnowB}
\* a knowledge file with the name of a context file
KnowClaude == <<"knowledge", "/", "CLAUDE", ".md">>
OtherPaths == {ClaudeMd, SkillMd, DocsNote}

\* the names save_knowledge is called with and what they are sanitized to:
\* name.toLowerCase().replace(/[^a-z0-9-]/g, '-').replace(/-+/g, '-')
SaveNames == {"a", "A", "b"}
sanitizeName(name) == IF name = "A" THEN "a" ELSE name

\* join(knowledgeDir, `${fileName}.md`), relative to the project root
knowledgeFile(name) == <<"knowledge", "/", sanitizeName(name), ".md">>

\* the autoload locations of a saved skill
claudeSkillFile(name) ==
    <<".claude", "/", "skills", "/", sanitizeName(name), "/", "SKILL", ".md">>
opencodeSkillFile(name) ==
    <<".opencode", "/", "skill", "/", sanitizeName(name), "/", "SKILL", ".md">>
AutoloadTargets ==
    {claudeSkillFile(n) : n \in SaveNames}
        \cup {opencodeSkillFile(n) : n \in SaveNames}

AgentsMd == <<"AGENTS", ".md">>

RelPaths == KnowledgePaths \cup {KnowClaude} \cup OtherPaths
                \cup AutoloadTargets \cup {AgentsMd}

\* path.join(projectRoot, rel)
Join(root, rel) == [root |-> root, rel |-> rel]

\* path.relative(projectRoot, abs): a path outside the root comes back
\* as a "../" path that names no file of the project
Relative(root, abs) ==
    IF abs.root = root THEN abs.rel ELSE <<"..", "/">> \o abs.rel

AbsPaths ==
    {Join(ProjectRoot, p) : p \in RelPaths}
        \cup {Join(OldRoot, p) : p \in KnowledgePaths}

\* String.prototype.includes / endsWith on the token form
Includes(p, a, b) == \E i \in 1..(Len(p) - 1) : p[i] = a /\ p[i + 1] = b
EndsWith(p, a) == Len(p) > 0 /\ p[Len(p)] = a
StartsWith(p, a, b) == Len(p) >= 2 /\ p[1] = a /\ p[2] = b

\* filePath.replace(/\\/g, '/')
normalizeSeparators(filePath) ==
    [i \in 1..Len(filePath) |->
        IF filePath[i] = "\\" THEN "/" ELSE filePath[i]]

isIndexable(filePath) ==
    LET normalized == normalizeSeparators(filePath)
    IN  IF ~Includes(normalized, "knowledge", "/") THEN FALSE
        ELSE IF ~EndsWith(normalized, ".md") THEN FALSE
        ELSE TRUE

\* path.basename: what follows the last "/"
basename(p) ==
    LET slashes == {i \in 1..Len(p) : p[i] = "/"}
        last == IF slashes = {} THEN 0
                ELSE CHOOSE i \in slashes : \A j \in slashes : j <= i
    IN  SubSeq(p, last + 1, Len(p))

isAuditable(filePath) ==
    LET normalized == normalizeSeparators(filePath)
        fileName == basename(normalized)
    IN  IF fileName = <<"CLAUDE", ".md">> \/ fileName = <<"AGENTS", ".md">>
        THEN TRUE
        ELSE IF Includes(normalized, ".claude", "/") THEN TRUE
        ELSE IF Includes(normalized, ".codex", "/") THEN TRUE
        ELSE IF Includes(normalized, ".opencode", "/") THEN TRUE
        ELSE FALSE

(***************************************************************************)
(* Contents, hashing, chunking, embedding                                  *)
(***************************************************************************)
NoFile == "NoFile"
KnowledgeContents == {"v1", "v2", "blank"}
CosmeticContents == {"v1ws"}
OtherContents == {"stub"}
Contents == KnowledgeContents \cup CosmeticContents \cup OtherContents

\* "v1ws" is "v1" with CRLF line endings and trailing blanks; the other
\* versions are already in normal form
normalizeContent(content) ==
    IF content = "v1ws" THEN "v1" ELSE content

\* the hash of the content as it is, without normalization
computeHash_raw(content) == <<"sha256", content>>

\* both hashes are SHA-256 digests in hex: of the normalized content for
\* the manifest, of the content as read for the file record
computeHash(content) == <<"sha256", normalizeContent(content)>>

calculateFileHash(content) == <<"sha256", content>>

\* the chunker: ordered chunk texts with their priorities
parseChunks(content) ==
    CASE content \in {"v1", "v1ws"} ->
              << [text |-> "alpha", priority |-> 6] >>
      [] content = "v2" -> << [text |-> "beta", priority |-> 10],
                              [text |-> "gamma", priority |-> 5] >>
      [] content = "stub" -> << [text |-> "delta", priority |-> 6] >>
      [] OTHER -> << >>

\* importance from the frontmatter, undefined when the file has none
parseImportance(content) ==
    IF content = "v2" THEN 9 ELSE undefined

MODEL_NAME == "Xenova/paraphrase-multilingual-MiniLM-L12-v2"
LEGACY_MODEL == "Xenova/all-MiniLM-L6-v2"
ModelIds == {MODEL_NAME, LEGACY_MODEL}
NoModel == "NoModel"

(***************************************************************************)
(* State                                                                   *)
(***************************************************************************)
VARIABLES
    disk,          \* relative path -> content or NoFile (the project tree)
    manifest,      \* manifest.json "files": relative path -> hash
    lastIndexed,   \* manifest.json "lastIndexed": a day, 0 for ''
    files,         \* table files: absolute path -> record or NoRec
    chunks,        \* table chunks: set of chunk rows
    storedModel,   \* index metadata: embedding model id or NoModel
    currentModel,  \* getModelId() of the running build
    now,           \* the clock, in days
    lastOp,        \* the operation that ran last
    results,       \* what the last operation returned
    embedder,      \* embeddings module: pipeline, initPromise, callers
    txn            \* db module: the open transaction and its working copy

vars == <<disk, manifest, lastIndexed, files, chunks, storedModel,
          currentModel, now, lastOp, results, embedder, txn>>

\* the argument of forgetStaleFiles
RetentionConfig(maxFiles, maxAgeDays, protectImportance) ==
    [maxFiles |-> maxFiles, maxAgeDays |-> maxAgeDays,
     protectImportance |-> protectImportance]

NoConfig == RetentionConfig(undefined, undefined, undefined)

\* the record of the last operation: its name and, for retention, its config
\* and, for save_knowledge, the type of the input
Op(name) == [op |-> name, config |-> NoConfig, type |-> "none"]
OpForget(config) == [op |-> "forget", config |-> config, type |-> "none"]
OpSave(name, type) == [op |-> name, config |-> NoConfig, type |-> type]

\* what an operation returns: the hits of a search, the SyncResult of a
\* sync (with what checkModelConsistency returned), the paths removed by
\* forgetStaleFiles, what ensureIndexFresh returned, the verdicts of the
\* path classifier
NoResult ==
    [hits |-> {}, added |-> {}, updated |-> {}, removed |-> {},
     unchanged |-> {}, modelChanged |-> FALSE,
     reindexed |-> FALSE,
     path |-> << >>, indexable |-> FALSE, auditable |-> FALSE,
     warnings |-> {}, critical |-> {}, totalAutoloadTokens |-> 0,
     interruptedAt |-> "none"]

\* the embeddings module before any call: embeddingPipeline and initPromise
\* are null; attempt is the loop variable of loadModelWithRetry; sequences
\* and attempts count the load sequences started and the calls of pipeline()
Callers == 1..MaxCallers
NoEmbedder ==
    [embeddingPipeline |-> "null", initPromise |-> "null",
     attempt |-> 0, phase |-> "none", sequences |-> 0, attempts |-> 0,
     callers |-> [c \in Callers |-> [status |-> "idle", via |-> "none"]]]

NoRec == [present |-> FALSE]

\* no transaction is open
NoTxn == [active |-> FALSE]

FileRec(hash, last, count, importance) ==
    [present |-> TRUE, hash |-> hash, last_accessed |-> last,
     access_count |-> count, importance |-> importance]

EmptyFiles == [a \in AbsPaths |-> NoRec]
NoHash == << >>
EmptyManifest == [p \in RelPaths |-> NoHash]
ManifestKeys(m) == {p \in RelPaths : m[p] # NoHash}

Init ==
    /\ disk = [p \in RelPaths |-> NoFile]
    /\ manifest = EmptyManifest
    /\ lastIndexed = 0
    /\ files = EmptyFiles
    /\ chunks = {}
    /\ storedModel = NoModel
    /\ currentModel = MODEL_NAME
    /\ now = 1
    /\ lastOp = Op("init")
    /\ results = NoResult
    /\ embedder = NoEmbedder
    /\ txn = NoTxn

(***************************************************************************)
(* Store (db module)                                                       *)
(***************************************************************************)
ChunkRow(filePath, i, c, model) ==
    [source_file |-> filePath, ordinal |-> i, text |-> c.text,
     priority |-> c.priority, model |-> model]

\* generateEmbeddings: one vector per chunk, made by the running model
EmbedChunks(filePath, parsed, model) ==
    {ChunkRow(filePath, i, parsed[i], model) : i \in 1..Len(parsed)}

IndexedPaths(fs) == {a \in DOMAIN fs : fs[a].present}

\* a store is the pair of tables [files, chunks]
upsertFileChunks(st, filePath, fileHash, rows, importance, t) ==
    LET fileImportance ==
            IF importance = undefined THEN DEFAULT_IMPORTANCE ELSE importance
    IN  [files |-> [st.files EXCEPT
                      ![filePath] = FileRec(fileHash, t, 0, fileImportance)],
         chunks |-> {c \in st.chunks : c.source_file # filePath} \cup rows]

\* the file record is deleted, its chunks are left behind
removeFile_recordOnly(st, filePath) ==
    [files |-> [a \in DOMAIN st.files |->
                  IF a = filePath THEN NoRec ELSE st.files[a]],
     chunks |-> st.chunks]

removeFile(st, filePath) ==
    [files |-> [a \in DOMAIN st.files |->
                  IF a = filePath THEN NoRec ELSE st.files[a]],
     chunks |-> {c \in st.chunks : c.source_file # filePath}]

\* only the file records are deleted
clearDatabase_filesOnly(st) == [files |-> EmptyFiles, chunks |-> st.chunks]

\* DELETE FROM chunks; DELETE FROM files;
clearDatabase(st) == [files |-> EmptyFiles, chunks |-> {}]

RECURSIVE removeAll(_, _)
removeAll(st, paths) ==
    IF paths = {} THEN st
    ELSE LET f == CHOOSE x \in paths : TRUE
         IN  removeAll(removeFile(st, f), paths \ {f})

(***************************************************************************)
(* Synchronizer (sync.ts)                                                  *)
(***************************************************************************)
\* findKnowledgeFiles(dir): the markdown files below dir
findKnowledgeFiles(root, d) ==
    {Join(root, p) : p \in {q \in RelPaths :
        d[q] # NoFile /\ StartsWith(q, "knowledge", "/") /\ EndsWith(q, ".md")}}

\* the discovery of the releases that indexed every markdown file
discoverFiles_wholeProject(root, d) ==
    {Join(root, p) : p \in {q \in RelPaths :
        d[q] # NoFile /\ EndsWith(q, ".md")}}

discoverFiles(root, d) ==
    {f \in findKnowledgeFiles(root, d) : isIndexable(Relative(root, f))}

\* the state a sync works on
SyncState(m, st, sm) ==
    [manifest |-> m, lastIndexed |-> 0, store |-> st, storedModel |-> sm,
     result |-> NoResult]

modelMismatch(sm, cm) == sm # NoModel /\ sm # cm

\* a check that reports the change of model and clears nothing
checkModelConsistency_noClear(s, cm) ==
    IF modelMismatch(s.storedModel, cm)
    THEN [s EXCEPT !.result.modelChanged = TRUE]
    ELSE s

\* on a mismatch the store is cleared and { files: {}, lastIndexed: '' }
\* is written
checkModelConsistency(s, cm) ==
    IF modelMismatch(s.storedModel, cm)
    THEN [SyncState(EmptyManifest, clearDatabase(s.store), s.storedModel)
            EXCEPT !.result.modelChanged = TRUE]
    ELSE s

\* the file records of the store are not compared with the files found
getFilesToIndex_manifestOnly(root, d, m, st, found) ==
    LET currentRelativePaths == {Relative(root, f) : f \in found}
        changed(f) ==
            LET manifestHash == m[Relative(root, f)]
            IN  manifestHash = NoHash
                \/ manifestHash # computeHash(d[Relative(root, f)])
    IN  [toIndex |-> {f \in found : changed(f)},
         unchanged |-> {f \in found : ~changed(f)},
         toRemove |->
            {Join(root, k) : k \in ManifestKeys(m) \ currentRelativePaths}]

getFilesToIndex(root, d, m, st, found) ==
    LET currentRelativePaths == {Relative(root, f) : f \in found}
        changed(f) ==
            LET manifestHash == m[Relative(root, f)]
            IN  manifestHash = NoHash
                \/ manifestHash # computeHash(d[Relative(root, f)])
    IN  [toIndex |-> {f \in found : changed(f)},
         unchanged |-> {f \in found : ~changed(f)},
         toRemove |->
            {Join(root, k) : k \in ManifestKeys(m) \ currentRelativePaths}
            \cup {a \in IndexedPaths(st.files) :
                    Relative(root, a) \notin currentRelativePaths}]

indexFile(st, root, d, filePath, cm, t) ==
    LET content == d[Relative(root, filePath)]
        parsed == parseChunks(content)
    IN  IF Len(parsed) = 0 THEN st
        ELSE upsertFileChunks(st, filePath, calculateFileHash(content),
                              EmbedChunks(filePath, parsed, cm),
                              parseImportance(content), t)

RECURSIVE indexAll(_, _, _, _, _, _)
indexAll(st, root, d, paths, cm, t) ==
    IF paths = {} THEN st
    ELSE LET f == CHOOSE x \in paths : TRUE
         IN  indexAll(indexFile(st, root, d, f, cm, t), root, d,
                      paths \ {f}, cm, t)

\* the part syncProject and ensureIndexFresh share once the work is known
applyChanges(s, root, d, plan, cm, t) ==
    LET removedRel == {Relative(root, f) : f \in plan.toRemove}
        indexedRel == {Relative(root, f) : f \in plan.toIndex}
        st1 == removeAll(s.store, plan.toRemove)
        st2 == indexAll(st1, root, d, plan.toIndex, cm, t)
        m2 == [p \in RelPaths |->
                 IF p \in indexedRel THEN computeHash(d[p])
                 ELSE IF p \in removedRel THEN NoHash
                 ELSE s.manifest[p]]
        m1Keys == ManifestKeys(s.manifest) \ removedRel
        wasIndexed(f) == Relative(root, f) \in m1Keys
    IN  [SyncState(m2, st2, cm) EXCEPT
            !.lastIndexed = t,
            !.result = [s.result EXCEPT
                !.removed = plan.toRemove,
                !.updated = {f \in plan.toIndex : wasIndexed(f)},
                !.added = {f \in plan.toIndex : ~wasIndexed(f)},
                !.unchanged = plan.unchanged]]

\* the manifest entries of files that have no record are not trusted
syncProject_storeCompared(s, root, d, cm, t) ==
    LET s1 == checkModelConsistency(s, cm)
        found == discoverFiles(root, d)
        trusted == [p \in RelPaths |->
                      IF s1.store.files[Join(root, p)].present
                      THEN s1.manifest[p] ELSE NoHash]
        plan == getFilesToIndex(root, d, trusted, s1.store, found)
    IN  applyChanges(s1, root, d, plan, cm, t)

syncProject(s, root, d, cm, t) ==
    LET s1 == checkModelConsistency(s, cm)
        found == discoverFiles(root, d)
        plan == getFilesToIndex(root, d, s1.manifest, s1.store, found)
    IN  applyChanges(s1, root, d, plan, cm, t)

\* no short circuit: the sync is carried out on every call
ensureIndexFresh_always(s, root, d, cm, t) ==
    LET s1 == checkModelConsistency(s, cm)
        found == discoverFiles(root, d)
        plan == getFilesToIndex(root, d, s1.manifest, s1.store, found)
    IN  [applyChanges(s1, root, d, plan, cm, t)
            EXCEPT !.result.reindexed = TRUE]

ensureIndexFresh(s, root, d, cm, t) ==
    LET modelChanged == modelMismatch(s.storedModel, cm)
        s1 == checkModelConsistency(s, cm)
        found == discoverFiles(root, d)
        plan == getFilesToIndex(root, d, s1.manifest, s1.store, found)
    IN  IF plan.toIndex = {} /\ plan.toRemove = {} /\ ~modelChanged
        THEN s1
        ELSE [applyChanges(s1, root, d, plan, cm, t)
                EXCEPT !.result.reindexed = TRUE]

Current ==
    [SyncState(manifest, [files |-> files, chunks |-> chunks], storedModel)
        EXCEPT !.lastIndexed = lastIndexed]

Install(s) ==
    /\ manifest' = s.manifest
    /\ lastIndexed' = s.lastIndexed
    /\ files' = s.store.files
    /\ chunks' = s.store.chunks
    /\ storedModel' = s.storedModel

(***************************************************************************)
(* Retention (db module: getStaleFiles, forgetStaleFiles)                  *)
(***************************************************************************)
protectThreshold(config) ==
    IF config.protectImportance = undefined THEN DEFAULT_PROTECT
    ELSE config.protectImportance

\* ORDER BY importance ASC, last_accessed ASC: the use count left out
OrderLeq_noAccessCount(r, k) ==
    \/ r.importance < k.importance
    \/ /\ r.importance = k.importance
       /\ r.last_accessed <= k.last_accessed

\* ORDER BY importance ASC, access_count ASC, last_accessed ASC
OrderLeq(r, k) ==
    \/ r.importance < k.importance
    \/ /\ r.importance = k.importance
       /\ \/ r.access_count < k.access_count
          \/ /\ r.access_count = k.access_count
             /\ r.last_accessed <= k.last_accessed

Max0(n) == IF n > 0 THEN n ELSE 0

\* the rows "... ORDER BY ... LIMIT n" can return: SQLite leaves the order
\* of rows with equal keys open
FirstInOrder(fs, cand, n) ==
    {S \in SUBSET cand :
        /\ Cardinality(S) = n
        /\ \A r \in S : \A k \in cand \ S : OrderLeq(fs[r], fs[k])}

\* the age rule applied to every file, protected or not
oldFiles_unprotected(fs, config, t) ==
    IF config.maxAgeDays = undefined THEN {}
    ELSE LET cutoff == t - config.maxAgeDays
         IN  {a \in IndexedPaths(fs) :
                fs[a].last_accessed < cutoff \/ fs[a].last_accessed = 0}

\* last_accessed = 0 stands for the empty string of a migrated database
oldFiles(fs, config, t) ==
    IF config.maxAgeDays = undefined THEN {}
    ELSE LET cutoff == t - config.maxAgeDays
         IN  {a \in IndexedPaths(fs) :
                /\ (fs[a].last_accessed < cutoff \/ fs[a].last_accessed = 0)
                /\ fs[a].importance < protectThreshold(config)}

\* the limit applied to the deletable files alone, the protected ones not
\* counted against it
lruFiles_protectedNotCounted(fs, config) ==
    IF config.maxFiles = undefined THEN {{}}
    ELSE LET deletable == {a \in IndexedPaths(fs) :
                             fs[a].importance < protectThreshold(config)}
         IN  IF Cardinality(deletable) > Max0(config.maxFiles)
             THEN FirstInOrder(fs, deletable,
                               Cardinality(deletable) - Max0(config.maxFiles))
             ELSE {{}}

lruFiles(fs, config) ==
    IF config.maxFiles = undefined THEN {{}}
    ELSE LET deletable == {a \in IndexedPaths(fs) :
                             fs[a].importance < protectThreshold(config)}
             protectedFiles == {a \in IndexedPaths(fs) :
                             fs[a].importance >= protectThreshold(config)}
             effectiveLimit ==
                 Max0(config.maxFiles - Cardinality(protectedFiles))
         IN  IF Cardinality(deletable) > effectiveLimit
             THEN FirstInOrder(fs, deletable,
                               Cardinality(deletable) - effectiveLimit)
             ELSE {{}}

\* the sets of paths getStaleFiles can return
getStaleFiles(fs, config, t) ==
    {oldFiles(fs, config, t) \cup S : S \in lruFiles(fs, config)}

forgetStaleFiles(st, staleFiles) == removeAll(st, staleFiles)

(***************************************************************************)
(* Searcher (search module)                                                *)
(***************************************************************************)
Queries == {"alpha", "beta", "any"}

\* cosine similarity of the query and a chunk, in thousandths
cosineSimilarity(query, text) ==
    IF query = text THEN 900 ELSE IF query = "any" THEN 500 ELSE 100

\* similarity * (1 + (priority / 10) * 0.2), in hundred-thousandths
adjustedScore(query, c) ==
    cosineSimilarity(query, c.text) * (100 + 2 * c.priority)

scoredChunks(cs, query) ==
    {c \in cs : adjustedScore(query, c) >= THRESHOLD_PERMILLE * 100}

MinOf(a, b) == IF a < b THEN a ELSE b

\* sort by score descending, slice(0, limit)
topResults(cs, query, limit) ==
    LET scored == scoredChunks(cs, query)
    IN  {T \in SUBSET scored :
            /\ Cardinality(T) = MinOf(limit, Cardinality(scored))
            /\ \A c \in T : \A u \in scored \ T :
                   adjustedScore(query, c) >= adjustedScore(query, u)}

touchFiles(fs, filePaths, t) ==
    [a \in DOMAIN fs |->
        IF a \in filePaths /\ fs[a].present
        THEN [fs[a] EXCEPT !.last_accessed = t,
                           !.access_count = fs[a].access_count + 1]
        ELSE fs[a]]

(***************************************************************************)
(* Operations                                                              *)
(***************************************************************************)
\* somebody (an editor, git, the agent) writes or overwrites a file
WriteFile(p, c) ==
    /\ disk[p] # c
    /\ disk' = [disk EXCEPT ![p] = c]
    /\ lastOp' = Op("env")
    /\ results' = NoResult
    /\ UNCHANGED <<manifest, lastIndexed, files, chunks, storedModel,
                   currentModel, now, embedder, txn>>

DeleteFile(p) ==
    /\ disk[p] # NoFile
    /\ disk' = [disk EXCEPT ![p] = NoFile]
    /\ lastOp' = Op("env")
    /\ results' = NoResult
    /\ UNCHANGED <<manifest, lastIndexed, files, chunks, storedModel,
                   currentModel, now, embedder, txn>>

Tick ==
    /\ now < MaxClock
    /\ now' = now + 1
    /\ lastOp' = Op("env")
    /\ results' = NoResult
    /\ UNCHANGED <<disk, manifest, lastIndexed, files, chunks, storedModel,
                   currentModel, embedder, txn>>

\* the tool is restarted with a build that embeds with another model
ChangeModel ==
    /\ currentModel' \in ModelIds \ {currentModel}
    /\ lastOp' = Op("env")
    /\ results' = NoResult
    /\ UNCHANGED <<disk, manifest, lastIndexed, files, chunks, storedModel,
                   now, embedder, txn>>

\* the files the first release indexed: CLAUDE.md, AGENTS.md and SKILL.md
\* files, wherever they are
legacyFiles(root, d) ==
    {Join(root, p) : p \in {q \in RelPaths :
        /\ d[q] # NoFile
        /\ \/ Includes(q, "SKILL", ".md") /\ EndsWith(q, ".md")
           \/ Includes(q, "CLAUDE", ".md") /\ EndsWith(q, ".md")}}

\* index_knowledge of the first release: it embeds with all-MiniLM-L6-v2
\* and records no model id; whether it left a manifest is not known
LegacySync ==
    /\ storedModel = NoModel
    /\ currentModel = LEGACY_MODEL
    /\ LET found == legacyFiles(ProjectRoot, disk)
           st == indexAll([files |-> files, chunks |-> chunks], ProjectRoot,
                          disk, found, LEGACY_MODEL, now)
           written == [p \in RelPaths |->
                          IF Join(ProjectRoot, p) \in found
                          THEN computeHash(disk[p]) ELSE manifest[p]]
       IN  /\ found # {}
           /\ files' = st.files
           /\ chunks' = st.chunks
           /\ \/ manifest' = manifest /\ lastIndexed' = lastIndexed
              \/ manifest' = written /\ lastIndexed' = now
    /\ lastOp' = Op("legacySync")
    /\ results' = NoResult
    /\ UNCHANGED <<disk, storedModel, currentModel, now, embedder, txn>>

\* index_knowledge / `sync` / `index`
SyncProject ==
    /\ LET s == syncProject(Current, ProjectRoot, disk, currentModel, now)
       IN  Install(s) /\ results' = s.result
    /\ lastOp' = Op("syncProject")
    /\ UNCHANGED <<disk, currentModel, now, embedder, txn>>

\* index_knowledge with force / `index --force`
ForceIndex ==
    /\ LET cleared == [Current EXCEPT !.store = clearDatabase(Current.store)]
           s == syncProject(cleared, ProjectRoot, disk, currentModel, now)
       IN  Install(s) /\ results' = s.result
    /\ lastOp' = Op("forceIndex")
    /\ UNCHANGED <<disk, currentModel, now, embedder, txn>>

\* `clear`
ClearIndex ==
    /\ IndexedPaths(files) # {} \/ chunks # {}
    /\ Install([Current EXCEPT !.store = clearDatabase(Current.store)])
    /\ lastOp' = Op("clear")
    /\ results' = NoResult
    /\ UNCHANGED <<disk, currentModel, now, embedder, txn>>

\* formatKnowledgeContent: a skill gets frontmatter (with importance) and
\* sections, a context a title and its text
KnowledgeTypes == {"skill", "context"}
formatKnowledgeContent(type) == IF type = "skill" THEN "v2" ELSE "v1"

\* save_knowledge: knowledge/<name>.md for either type, then syncProject;
\* the result carries the path of the target
SaveKnowledge_overwrite(name, type) ==
    LET filePath == knowledgeFile(name)
        content == formatKnowledgeContent(type)
        written == [disk EXCEPT ![filePath] = content]
    IN  /\ UNCHANGED <<currentModel, now, embedder, txn>>
        /\ IF disk[filePath] # NoFile
           THEN /\ lastOp' = OpSave("saveRefused", type)
                /\ results' = [NoResult EXCEPT !.path = filePath]
                /\ disk' = written
                /\ UNCHANGED <<manifest, lastIndexed, files, chunks,
                               storedModel>>
           ELSE /\ disk' = written
                /\ LET s == syncProject(Current, ProjectRoot, written,
                                        currentModel, now)
                   IN  Install(s) /\ results' = [s.result EXCEPT
                                                    !.path = filePath]
                /\ lastOp' = OpSave("saveKnowledge", type)

SaveKnowledge(name, type) ==
    LET filePath == knowledgeFile(name)
        content == formatKnowledgeContent(type)
        written == [disk EXCEPT ![filePath] = content]
    IN  /\ UNCHANGED <<currentModel, now, embedder, txn>>
        /\ IF disk[filePath] # NoFile
           THEN /\ lastOp' = OpSave("saveRefused", type)
                /\ results' = [NoResult EXCEPT !.path = filePath]
                /\ UNCHANGED <<disk, manifest, lastIndexed, files, chunks,
                               storedModel>>
           ELSE /\ disk' = written
                /\ LET s == syncProject(Current, ProjectRoot, written,
                                        currentModel, now)
                   IN  Install(s) /\ results' = [s.result EXCEPT
                                                    !.path = filePath]
                /\ lastOp' = OpSave("saveKnowledge", type)

\* forgetStaleFiles(projectRoot, config); it returns the removed paths
ForgetStale(config) ==
    \E stale \in getStaleFiles(files, config, now) :
        LET st == forgetStaleFiles(Current.store, stale)
        IN  /\ files' = st.files
            /\ chunks' = st.chunks
            /\ results' = [NoResult EXCEPT !.removed = stale]
            /\ lastOp' = OpForget(config)
            /\ UNCHANGED <<disk, manifest, lastIndexed, storedModel,
                           currentModel, now, embedder, txn>>

\* forget_knowledge / `forget`
ForgetKnowledge(max_files, max_age_days) ==
    IF max_files \in {undefined, 0} /\ max_age_days \in {undefined, 0}
    THEN /\ lastOp' = [OpForget(RetentionConfig(max_files, max_age_days,
                                                 undefined))
                           EXCEPT !.op = "forgetRefused"]
         /\ results' = NoResult
         /\ UNCHANGED <<disk, manifest, lastIndexed, files, chunks,
                        storedModel, currentModel, now, embedder, txn>>
    ELSE ForgetStale(RetentionConfig(max_files, max_age_days, undefined))

\* search: ensureIndexFresh, rank, touch
Search(query, limit) ==
    LET s == ensureIndexFresh(Current, ProjectRoot, disk, currentModel, now)
    IN  \E top \in topResults(s.store.chunks, query, limit) :
          LET accessedFiles == {c.source_file : c \in top}
          IN  /\ \A a \in accessedFiles :
                    s.store.files[a].present
                        => s.store.files[a].access_count < MaxAccess
              /\ manifest' = s.manifest
              /\ lastIndexed' = s.lastIndexed
              /\ storedModel' = s.storedModel
              /\ chunks' = s.store.chunks
              /\ files' = touchFiles(s.store.files, accessedFiles, now)
              /\ results' = [NoResult EXCEPT
                                !.hits = top,
                                !.reindexed = s.result.reindexed]
              /\ lastOp' = Op("search")
              /\ UNCHANGED <<disk, currentModel, now, embedder, txn>>

ConfigValues(max) == {undefined} \cup (0..max)

\* the index over the knowledge tree, one embedding model, within one day
Next ==
    \/ \E p \in KnowledgePaths : \E c \in KnowledgeContents : WriteFile(p, c)
    \/ \E p \in KnowledgePaths : DeleteFile(p)
    \/ SyncProject
    \/ ForceIndex
    \/ ClearIndex
    \/ \E n \in SaveNames : \E t \in KnowledgeTypes : SaveKnowledge(n, t)
    \/ \E mf \in ConfigValues(MaxFilesCfg) : \E ma \in {undefined, 0} :
           ForgetKnowledge(mf, ma)
    \/ \E q \in Queries : \E l \in {1, DEFAULT_LIMIT} : Search(q, l)

Spec == Init /\ [][Next]_vars

(***************************************************************************)
(* The whole project tree over several days: one knowledge file next to    *)
(* the autoload files and a file of another directory                      *)
(***************************************************************************)
NextPaths ==
    \/ \E c \in KnowledgeContents \cup CosmeticContents : WriteFile(KnowA, c)
    \/ \E p \in OtherPaths : \E c \in OtherContents : WriteFile(p, c)
    \/ \E p \in OtherPaths \cup {KnowA} : DeleteFile(p)
    \/ Tick
    \/ SyncProject
    \/ ForceIndex
    \/ \E n \in {"a", "A"} : \E t \in KnowledgeTypes : SaveKnowledge(n, t)
    \/ \E ma \in ConfigValues(MaxAgeCfg) : ForgetKnowledge(undefined, ma)
    \/ \E q \in Queries : \E l \in {1, DEFAULT_LIMIT} : Search(q, l)

SpecPaths == Init /\ [][NextPaths]_vars

(***************************************************************************)
(* Builds with different embedding models over one index                   *)
(***************************************************************************)
InitModel ==
    /\ disk = [p \in RelPaths |-> NoFile]
    /\ manifest = EmptyManifest
    /\ lastIndexed = 0
    /\ files = EmptyFiles
    /\ chunks = {}
    /\ storedModel = NoModel
    /\ currentModel \in ModelIds
    /\ now = 1
    /\ lastOp = Op("init")
    /\ results = NoResult
    /\ embedder = NoEmbedder
    /\ txn = NoTxn

NextModel ==
    \/ \E p \in KnowledgePaths : \E c \in {"v1", "blank"} : WriteFile(p, c)
    \/ \E c \in OtherContents : WriteFile(ClaudeMd, c)
    \/ \E p \in KnowledgePaths : DeleteFile(p)
    \/ ChangeModel
    \/ LegacySync
    \/ SyncProject
    \/ ForceIndex
    \/ ClearIndex
    \/ \E n \in {"a", "b"} : SaveKnowledge(n, "context")
    \/ ForgetKnowledge(1, undefined)
    \/ \E q \in Queries : Search(q, DEFAULT_LIMIT)

SpecModel == InitModel /\ [][NextModel]_vars

(***************************************************************************)
(* Retention on its own: forgetStaleFiles applied to any index             *)
(***************************************************************************)
RetName(i) == <<"knowledge", "/", i, ".md">>
RetFile(i) == Join(ProjectRoot, RetName(i))
RetFiles == {RetFile(i) : i \in {"f1", "f2", "f3", "f4", "f5"}}

\* the importances the five files can have been saved with
RetImportances(a) ==
    CASE a = RetFile("f1") -> {10}
      [] a = RetFile("f2") -> {8}
      [] a = RetFile("f3") -> {5}
      [] a = RetFile("f4") -> {3}
      [] a = RetFile("f5") -> {2, 3}

\* f1 is protected under every config used here, its use never matters;
\* f2 and f3 share their importance with no file, their use count never
\* decides their rank
RetRecords(a) ==
    {NoRec} \cup
    {FileRec(calculateFileHash("v1"), last, count, imp) :
        last \in (IF a = RetFile("f1") THEN {1} ELSE 1..RetMaxStamp),
        count \in (IF a \in {RetFile("f4"), RetFile("f5")}
                   THEN 0..RetMaxAccess ELSE {0}),
        imp \in RetImportances(a)}

InitRetention ==
    /\ disk = [p \in RelPaths |-> NoFile]
    /\ manifest = EmptyManifest
    /\ lastIndexed = 0
    /\ files \in {fs \in [RetFiles -> UNION {RetRecords(a) : a \in RetFiles}] :
                    \A a \in RetFiles : fs[a] \in RetRecords(a)}
    /\ chunks = UNION {EmbedChunks(a, parseChunks("v1"), MODEL_NAME) :
                          a \in IndexedPaths(files)}
    /\ storedModel = MODEL_NAME
    /\ currentModel = MODEL_NAME
    /\ now = RetMaxStamp
    /\ lastOp = Op("init")
    /\ results = NoResult
    /\ embedder = NoEmbedder
    /\ txn = NoTxn

NextRetention ==
    \E mf \in ConfigValues(RetMaxFiles) : \E ma \in ConfigValues(RetMaxAge) :
       \E pi \in {undefined, 10} :
          ForgetStale(RetentionConfig(mf, ma, pi))

SpecRetention == InitRetention /\ [][NextRetention]_vars

(***************************************************************************)
(* The path classifier on its own: isIndexable and isAuditable applied to  *)
(* any path of up to MaxDepth directories                                  *)
(***************************************************************************)
ClassifyDirs ==
    {<<"knowledge", "/">>, <<"knowledge", "\\">>, <<"my", "knowledge", "/">>,
     <<"docs", "/">>, <<".claude", "/">>, <<".codex", "/">>,
     <<".opencode", "/">>}

ClassifyNames ==
    {<<"n", ".md">>, <<"CLAUDE", ".md">>, <<"AGENTS", ".md">>,
     <<"SKILL", ".md">>, <<"data", ".json">>}

RECURSIVE ClassifyPrefixes(_)
ClassifyPrefixes(n) ==
    IF n = 0 THEN {<< >>}
    ELSE ClassifyPrefixes(n - 1)
         \cup {d \o q : d \in ClassifyDirs, q \in ClassifyPrefixes(n - 1)}

ClassifyPaths ==
    {q \o f : q \in ClassifyPrefixes(MaxDepth), f \in ClassifyNames}

InitClassify ==
    /\ disk = [p \in RelPaths |-> NoFile]
    /\ manifest = EmptyManifest
    /\ lastIndexed = 0
    /\ files = EmptyFiles
    /\ chunks = {}
    /\ storedModel = NoModel
    /\ currentModel = MODEL_NAME
    /\ now = 1
    /\ lastOp = Op("init")
    /\ results \in {[NoResult EXCEPT !.path = p] : p \in ClassifyPaths}
    /\ embedder = NoEmbedder
    /\ txn = NoTxn

Classify ==
    /\ results' = [results EXCEPT !.indexable = isIndexable(results.path),
                                  !.auditable = isAuditable(results.path)]
    /\ lastOp' = Op("classify")
    /\ UNCHANGED <<disk, manifest, lastIndexed, files, chunks, storedModel,
                   currentModel, now, embedder, txn>>

NextClassify == Classify

SpecClassify == InitClassify /\ [][NextClassify]_vars

(***************************************************************************)
(* Properties                                                              *)
(***************************************************************************)
ChunksOfFile(cs, a) == {c \in cs : c.source_file = a}
ChunkTexts(content) ==
    {parseChunks(content)[i].text : i \in 1..Len(parseChunks(content))}
IndexedRel(fs) == {Relative(ProjectRoot, a) : a \in IndexedPaths(fs)}
OnDisk(ps) == {p \in ps : disk[p] # NoFile}

SyncProjectOps == {"syncProject", "forceIndex", "saveKnowledge"}
SyncOps == SyncProjectOps \cup {"search"}

\* C1: no file outside knowledge/ ever has a chunk, a file record or a
\* manifest entry, whatever was synced, searched, saved or forgotten.
C1_OnlyKnowledgeIsIndexed ==
    \A p \in RelPaths :
        ~StartsWith(p, "knowledge", "/") =>
            /\ ~files[Join(ProjectRoot, p)].present
            /\ ChunksOfFile(chunks, Join(ProjectRoot, p)) = {}
            /\ manifest[p] = NoHash

C1_Witness ==
    /\ lastOp.op \in SyncOps
    /\ OnDisk(OtherPaths) = OtherPaths
    /\ files[Join(ProjectRoot, KnowA)].present
    /\ manifest[KnowA] # NoHash

\* C2: after a syncProject run, every knowledge file on disk has its
\* current hash in the manifest and exactly the chunks of its current
\* contents in the store.
C2_SyncedFilesMatchDisk ==
    lastOp.op = "syncProject" =>
        \A p \in OnDisk(KnowledgePaths) :
            /\ manifest[p] = computeHash(disk[p])
            /\ ChunksOfFile(chunks, Join(ProjectRoot, p))
                  = EmbedChunks(Join(ProjectRoot, p), parseChunks(disk[p]),
                                currentModel)

\* C3: a search returns only chunks of the current contents of the files:
\* no chunk of an earlier version of a file is returned.
C3_SearchNeverStale ==
    lastOp.op = "search" =>
        \A c \in results.hits :
            c.text \in ChunkTexts(disk[Relative(ProjectRoot, c.source_file)])

C5_ManifestAgreesWithStore ==
    lastOp.op \in SyncOps => ManifestKeys(manifest) = IndexedRel(files)

\* the index holds the knowledge files of the tree d, embedded by model cm,
\* and nothing else
IndexIsRebuilt(d, m, fs, cs, cm) ==
    /\ \A c \in cs : c.model = cm
    /\ \A p \in KnowledgePaths :
          LET a == Join(ProjectRoot, p)
          IN  IF d[p] = NoFile
              THEN /\ ~fs[a].present
                   /\ ChunksOfFile(cs, a) = {}
                   /\ m[p] = NoHash
              ELSE /\ ChunksOfFile(cs, a)
                        = EmbedChunks(a, parseChunks(d[p]), cm)
                   /\ fs[a].present <=> Len(parseChunks(d[p])) > 0
                   /\ m[p] = computeHash(d[p])

ProtectedBy(fs, config) ==
    {a \in IndexedPaths(fs) :
        fs[a].importance >= (IF config.protectImportance = undefined
                             THEN 8 ELSE config.protectImportance)}

\* C8: forgetStale deletes no file whose importance is at least the
\* protection threshold of its config, which is 8 unless the config sets
\* protectImportance.
C8_ProtectedFilesAreKept ==
    [][lastOp'.op = "forget" =>
          \A a \in ProtectedBy(files, lastOp'.config) : files'[a] = files[a]]_vars

\* C8 as stated: under every config, no file of importance 8 or more is
\* deleted.
C8_Original ==
    [][lastOp'.op = "forget" =>
          \A a \in IndexedPaths(files) :
              files[a].importance >= 8 => files'[a].present]_vars

C8_Witness ==
    /\ lastOp.op = "forget"
    /\ lastOp.config.maxFiles = 0
    /\ results.removed # {}
    /\ ProtectedBy(files, lastOp.config) # {}
    /\ IndexedPaths(files) = ProtectedBy(files, lastOp.config)

\* the scenario of C9: the five files, of importances 10, 8, 5, 3 and 2
FiveFilesIndexed(fs) ==
    /\ IndexedPaths(fs) = RetFiles
    /\ fs[RetFile("f5")].importance = 2

MaxFilesTwo == RetentionConfig(2, undefined, undefined)

\* C9 as stated: forgetStale({maxFiles: 2}) on the five files keeps the
\* files of importance 10, 8 and 5 and removes those of importance 3 and 2.
C9_Original ==
    [][(FiveFilesIndexed(files) /\ lastOp' = OpForget(MaxFilesTwo))
          => IndexedPaths(files')
                = {RetFile("f1"), RetFile("f2"), RetFile("f3")}]_vars

\* C9: forgetStale({maxFiles: 2}) on the five files keeps the two files of
\* importance 10 and 8 and removes the files of importance 5, 3 and 2.
C9_OnlyProtectedRemain ==
    [][(FiveFilesIndexed(files) /\ lastOp' = OpForget(MaxFilesTwo))
          => /\ IndexedPaths(files') = {RetFile("f1"), RetFile("f2")}
             /\ results'.removed
                   = {RetFile("f3"), RetFile("f4"), RetFile("f5")}]_vars

C9_Witness ==
    /\ lastOp = OpForget(MaxFilesTwo)
    /\ results.removed = {RetFile("f3"), RetFile("f4"), RetFile("f5")}
    /\ IndexedPaths(files) = {RetFile("f1"), RetFile("f2")}
    /\ files[RetFile("f1")].importance = 10
    /\ files[RetFile("f2")].importance = 8

\* r comes strictly before k in the order importance, then access_count,
\* then last_accessed
RanksBefore(r, k) ==
    \/ r.importance < k.importance
    \/ r.importance = k.importance /\ r.access_count < k.access_count
    \/ /\ r.importance = k.importance
       /\ r.access_count = k.access_count
       /\ r.last_accessed < k.last_accessed

Unprotected(fs, config) == IndexedPaths(fs) \ ProtectedBy(fs, config)

\* C10: with maxFiles alone, forgetStale leaves min(n, max(0, maxFiles - |P|))
\* of the n unprotected files, P being the protected ones, and no file it
\* keeps comes before a file it removes in the order importance, then
\* access_count, then last_accessed.
C10_MaxFilesKeepsTheBestRanked ==
    [][(/\ lastOp'.op = "forget"
        /\ lastOp'.config.maxFiles # undefined
        /\ lastOp'.config.maxAgeDays = undefined)
          => LET config == lastOp'.config
                 before == Unprotected(files, config)
                 after == Unprotected(files', config)
                 room == config.maxFiles
                           - Cardinality(ProtectedBy(files, config))
                 quota == IF room > 0 THEN room ELSE 0
             IN  /\ after \subseteq before
                 /\ Cardinality(after)
                       = (IF Cardinality(before) < quota
                          THEN Cardinality(before) ELSE quota)
                 /\ results'.removed = before \ after
                 /\ \A k \in after : files'[k] = files[k]
                 /\ \A r \in before \ after : \A k \in after :
                        ~RanksBefore(files[k], files[r])]_vars

\* two files of equal importance, the less used one removed
C10_Witness ==
    /\ lastOp.op = "forget"
    /\ lastOp.config.maxFiles = 2
    /\ lastOp.config.maxAgeDays = undefined
    /\ lastOp.config.protectImportance = undefined
    /\ results.removed = {RetFile("f5")}
    /\ files[RetFile("f2")].present
    /\ files[RetFile("f4")].present
    /\ files[RetFile("f4")].importance = 3
    /\ files[RetFile("f4")].access_count = 1
    /\ ~files[RetFile("f1")].present
    /\ ~files[RetFile("f3")].present

(***************************************************************************)
(* A project indexed at OldRoot and then moved, with .memory-forge/, to    *)
(* ProjectRoot                                                             *)
(***************************************************************************)
MovedTrees ==
    {[p \in RelPaths |-> IF p \in KnowledgePaths THEN d[p] ELSE NoFile] :
        d \in [KnowledgePaths -> {"v1", "v2", NoFile}] \
                 {[p \in KnowledgePaths |-> NoFile]}}

\* what syncProject(OldRoot) left in .memory-forge/ for a tree
indexedAt(root, tree) ==
    syncProject(SyncState(EmptyManifest,
                          [files |-> EmptyFiles, chunks |-> {}], NoModel),
                root, tree, MODEL_NAME, 1)

InitMove ==
    \E tree \in MovedTrees :
        /\ disk = tree
        /\ manifest = indexedAt(OldRoot, tree).manifest
        /\ lastIndexed = indexedAt(OldRoot, tree).lastIndexed
        /\ files = indexedAt(OldRoot, tree).store.files
        /\ chunks = indexedAt(OldRoot, tree).store.chunks
        /\ storedModel = indexedAt(OldRoot, tree).storedModel
        /\ currentModel = MODEL_NAME
        /\ now = 1
        /\ lastOp = Op("move")
        /\ results = NoResult
        /\ embedder = NoEmbedder
        /\ txn = NoTxn

NextMove ==
    \/ \E p \in KnowledgePaths : \E c \in {"v1", "v2"} : WriteFile(p, c)
    \/ \E p \in KnowledgePaths : DeleteFile(p)
    \/ Tick
    \/ SyncProject
    \/ \E q \in Queries : Search(q, DEFAULT_LIMIT)

SpecMove == InitMove /\ [][NextMove]_vars

(***************************************************************************)
(* Sync over the file parser of the chunker module, which selects the      *)
(* parser by the name of the file                                          *)
(***************************************************************************)
\* filePath.toLowerCase(), token by token
lowerCase(token) ==
    CASE token = "CLAUDE" -> "claude"
      [] token = "AGENTS" -> "agents"
      [] token = "SKILL" -> "skill"
      [] OTHER -> token

\* fileName.endsWith(name + '.md')
EndsWithName(p, name) ==
    /\ Len(p) >= 2
    /\ lowerCase(p[Len(p) - 1]) = name
    /\ lowerCase(p[Len(p)]) = ".md"

\* parseFile: the parsed chunks, or the throw of 'Unsupported file type'
parseFile(filePath, content) ==
    IF EndsWithName(filePath.rel, "skill")
    THEN [threw |-> FALSE, chunks |-> parseChunks(content),
          importance |-> parseImportance(content)]
    ELSE IF EndsWithName(filePath.rel, "claude")
            \/ EndsWithName(filePath.rel, "agents")
    THEN [threw |-> FALSE, chunks |-> parseChunks(content),
          importance |-> undefined]
    ELSE [threw |-> TRUE]

\* indexFile on a file that parseFile accepts
indexParsedFile(st, root, d, filePath, cm, t) ==
    LET content == d[Relative(root, filePath)]
        parsed == parseFile(filePath, content)
    IN  IF Len(parsed.chunks) = 0 THEN st
        ELSE upsertFileChunks(st, filePath, calculateFileHash(content),
                              EmbedChunks(filePath, parsed.chunks, cm),
                              parsed.importance, t)

RECURSIVE indexAllParsed(_, _, _, _, _, _)
indexAllParsed(st, root, d, paths, cm, t) ==
    IF paths = {} THEN st
    ELSE LET f == CHOOSE x \in paths : TRUE
         IN  indexAllParsed(indexParsedFile(st, root, d, f, cm, t), root, d,
                            paths \ {f}, cm, t)

\* syncProject over parseFile: the throw of a file leaves the loop, after
\* the removals and the files indexed before it, and before saveManifest
\* and setEmbeddingModel
SyncParsed ==
    LET s1 == checkModelConsistency(Current, currentModel)
        found == discoverFiles(ProjectRoot, disk)
        plan == getFilesToIndex(ProjectRoot, disk, s1.manifest, s1.store,
                                found)
        rejected == {f \in plan.toIndex :
                        parseFile(f, disk[Relative(ProjectRoot, f)]).threw}
        st1 == removeAll(s1.store, plan.toRemove)
        done == applyChanges(s1, ProjectRoot, disk, plan, currentModel, now)
    IN  /\ UNCHANGED <<disk, currentModel, now, embedder, txn>>
        /\ IF rejected = {}
           THEN /\ Install([done EXCEPT
                              !.store = indexAllParsed(st1, ProjectRoot, disk,
                                            plan.toIndex, currentModel, now)])
                /\ results' = done.result
                /\ lastOp' = Op("syncProject")
           ELSE \E before \in SUBSET (plan.toIndex \ rejected) :
                    /\ Install([s1 EXCEPT
                                  !.store = indexAllParsed(st1, ProjectRoot,
                                                disk, before, currentModel,
                                                now)])
                    /\ results' = NoResult
                    /\ lastOp' = Op("syncFailed")

ParsePaths == {KnowA, KnowClaude}

NextParse ==
    \/ \E p \in ParsePaths : \E c \in {"v1", "blank"} : WriteFile(p, c)
    \/ \E p \in ParsePaths : DeleteFile(p)
    \/ Tick
    \/ SyncParsed
    \/ ClearIndex
    \/ \E mf \in {undefined, 1} : ForgetKnowledge(mf, undefined)

SpecParse == Init /\ [][NextParse]_vars

(***************************************************************************)
(* Audit of the autoload files (forge module)                              *)
(***************************************************************************)
CLAUDE_MD_WARNING == 500
CLAUDE_MD_CRITICAL == 1000
AGENTS_MD_WARNING == 500
AGENTS_MD_CRITICAL == 1000
SKILL_MD_WARNING == 300
SKILL_MD_CRITICAL == 600
TOTAL_AUTOLOAD_WARNING == 2000
TOTAL_AUTOLOAD_CRITICAL == 5000

\* files of a given number of characters, 'x'.repeat(n)
AuditSizes ==
    {<<"x1200", 1200>>, <<"x1201", 1201>>, <<"x2000", 2000>>,
     <<"x2001", 2001>>, <<"x2400", 2400>>, <<"x2401", 2401>>,
     <<"x4000", 4000>>, <<"x4001", 4001>>, <<"x12000", 12000>>}
AuditContents == {pr[1] : pr \in AuditSizes}

\* content.length
contentLength(content) == (CHOOSE pr \in AuditSizes : pr[1] = content)[2]

\* Math.ceil(content.length / 4)
estimateTokens(content) == (contentLength(content) + 3) \div 4

SpecialDirs == {".claude", ".codex", ".opencode"}

\* the root context files that exist and the markdown files found by the
\* walk of the special directories
findAuditableFiles(root, d) ==
    {Join(root, p) : p \in {q \in {ClaudeMd, AgentsMd} : d[q] # NoFile}}
        \cup {Join(root, p) :
                p \in {q \in RelPaths :
                          /\ d[q] # NoFile
                          /\ q[1] \in SpecialDirs /\ q[2] = "/"
                          /\ EndsWith(q, ".md")}}

warningThreshold(fileName) ==
    IF fileName = <<"CLAUDE", ".md">> THEN CLAUDE_MD_WARNING
    ELSE IF fileName = <<"AGENTS", ".md">> THEN AGENTS_MD_WARNING
    ELSE SKILL_MD_WARNING

criticalThreshold(fileName) ==
    IF fileName = <<"CLAUDE", ".md">> THEN CLAUDE_MD_CRITICAL
    ELSE IF fileName = <<"AGENTS", ".md">> THEN AGENTS_MD_CRITICAL
    ELSE SKILL_MD_CRITICAL

\* both thresholds are met by a count equal to them
auditLevel_inclusive(tokens, warning, critical) ==
    IF tokens >= critical THEN "critical"
    ELSE IF tokens >= warning THEN "warning"
    ELSE "none"

\* if (tokens > criticalThreshold) ... else if (tokens > warningThreshold)
auditLevel(tokens, warning, critical) ==
    IF tokens > critical THEN "critical"
    ELSE IF tokens > warning THEN "warning"
    ELSE "none"

RECURSIVE sumTokens(_, _, _)
sumTokens(root, d, fs) ==
    IF fs = {} THEN 0
    ELSE LET f == CHOOSE x \in fs : TRUE
         IN  estimateTokens(d[Relative(root, f)])
                 + sumTokens(root, d, fs \ {f})

AuditEntry(file, tokens, level) ==
    [file |-> file, tokens |-> tokens, level |-> level]

audit(root, d) ==
    LET auditableFiles == findAuditableFiles(root, d)
        entry(f) ==
            LET relPath == Relative(root, f)
                tokens == estimateTokens(d[relPath])
                fileName == basename(f.rel)
            IN  AuditEntry(relPath, tokens,
                           auditLevel(tokens, warningThreshold(fileName),
                                      criticalThreshold(fileName)))
        totalTokens == sumTokens(root, d, auditableFiles)
        total == AuditEntry(<<"TOTAL">>, totalTokens,
                            auditLevel(totalTokens, TOTAL_AUTOLOAD_WARNING,
                                       TOTAL_AUTOLOAD_CRITICAL))
        entries == {entry(f) : f \in auditableFiles} \cup {total}
    IN  [warnings |-> {e \in entries : e.level = "warning"},
         critical |-> {e \in entries : e.level = "critical"},
         totalAutoloadTokens |-> totalTokens]

AuditPaths == {ClaudeMd, AgentsMd, SkillMd}

InitAudit ==
    /\ disk \in {[p \in RelPaths |->
                    IF p \in AuditPaths THEN a[p]
                    ELSE IF p = KnowA THEN k ELSE NoFile] :
                  a \in [AuditPaths -> AuditContents \cup {NoFile}],
                  k \in {NoFile, "x12000"}}
    /\ manifest = EmptyManifest
    /\ lastIndexed = 0
    /\ files = EmptyFiles
    /\ chunks = {}
    /\ storedModel = NoModel
    /\ currentModel = MODEL_NAME
    /\ now = 1
    /\ lastOp = Op("init")
    /\ results = NoResult
    /\ embedder = NoEmbedder
    /\ txn = NoTxn

\* audit_knowledge: the report, nothing is written
Audit ==
    /\ LET report == audit(ProjectRoot, disk)
       IN  results' = [NoResult EXCEPT
                          !.warnings = report.warnings,
                          !.critical = report.critical,
                          !.totalAutoloadTokens = report.totalAutoloadTokens]
    /\ lastOp' = Op("audit")
    /\ UNCHANGED <<disk, manifest, lastIndexed, files, chunks, storedModel,
                   currentModel, now, embedder, txn>>

NextAudit == Audit

SpecAudit == InitAudit /\ [][NextAudit]_vars

(***************************************************************************)
(* Loading of the embedding model (embeddings module) under concurrent     *)
(* callers                                                                 *)
(***************************************************************************)
MAX_RETRIES == 3

\* the model is loaded anew whenever the pipeline is not there yet
initPipeline_noPromise(e, c, via) ==
    IF e.embeddingPipeline # "null"
    THEN [e EXCEPT !.callers[c] = [status |-> "ok", via |-> via]]
    ELSE [e EXCEPT !.initPromise = "pending",
                   !.attempt = 1, !.phase = "loading",
                   !.sequences = e.sequences + 1,
                   !.attempts = e.attempts + 1,
                   !.callers[c] = [status |-> "waiting", via |-> via]]

\* initPipeline, up to its first await: the pipeline if it is there, the
\* pending or settled initPromise if there is one, else a new initPromise
\* whose load sequence starts its first attempt
initPipeline(e, c, via) ==
    IF e.embeddingPipeline # "null"
    THEN [e EXCEPT !.callers[c] = [status |-> "ok", via |-> via]]
    ELSE IF e.initPromise # "null"
    THEN [e EXCEPT !.callers[c] = [status |-> "waiting", via |-> via]]
    ELSE [e EXCEPT !.initPromise = "pending",
                   !.attempt = 1, !.phase = "loading",
                   !.sequences = e.sequences + 1,
                   !.attempts = e.attempts + 1,
                   !.callers[c] = [status |-> "waiting", via |-> via]]

EmbedStep(name) ==
    /\ lastOp' = Op(name)
    /\ results' = NoResult
    /\ UNCHANGED <<disk, manifest, lastIndexed, files, chunks, storedModel,
                   currentModel, now, txn>>

\* generateEmbedding / generateEmbeddings / preloadModel is called
CallEmbedder(c, via) ==
    /\ embedder.callers[c].status # "waiting"
    /\ embedder' = initPipeline(embedder, c, via)
    /\ EmbedStep("call")

\* pipeline('feature-extraction', MODEL_NAME) resolves
AttemptSucceeds ==
    /\ embedder.phase = "loading"
    /\ embedder' = [embedder EXCEPT !.embeddingPipeline = MODEL_NAME,
                                    !.initPromise = "resolved",
                                    !.phase = "done"]
    /\ EmbedStep("loaded")

\* pipeline(...) rejects: sleep and retry, or give up after MAX_RETRIES
AttemptFails ==
    /\ embedder.phase = "loading"
    /\ embedder' = IF embedder.attempt < MAX_RETRIES
                   THEN [embedder EXCEPT !.phase = "sleeping"]
                   ELSE [embedder EXCEPT !.initPromise = "rejected",
                                         !.phase = "done"]
    /\ EmbedStep("attemptFailed")

\* sleep(RETRY_DELAY_MS) is over: the next attempt
RetryAfterSleep ==
    /\ embedder.phase = "sleeping"
    /\ embedder' = [embedder EXCEPT !.attempt = embedder.attempt + 1,
                                    !.attempts = embedder.attempts + 1,
                                    !.phase = "loading"]
    /\ EmbedStep("retry")

\* a caller that awaits initPromise is resumed with its outcome
ResumeCaller(c) ==
    /\ embedder.callers[c].status = "waiting"
    /\ embedder.initPromise \in {"resolved", "rejected"}
    /\ embedder' = [embedder EXCEPT
                      !.callers[c].status =
                          IF embedder.initPromise = "resolved"
                          THEN "ok" ELSE "error"]
    /\ EmbedStep("resumed")

NextEmbed ==
    \/ \E c \in Callers : \E via \in {"embed", "preload"} :
           CallEmbedder(c, via)
    \/ AttemptSucceeds
    \/ AttemptFails
    \/ RetryAfterSleep
    \/ \E c \in Callers : ResumeCaller(c)

SpecEmbed == Init /\ [][NextEmbed]_vars

(***************************************************************************)
(* Normalization and hashing of texts, character by character              *)
(***************************************************************************)
\* a letter, space, tab, carriage return, line feed, no-break space
Chars == {"a", "SP", "TAB", "CR", "LF", "NBSP"}

\* what String.prototype.trimEnd removes: WhiteSpace and LineTerminator
JsWhiteSpace == {"SP", "TAB", "CR", "LF", "NBSP"}

RECURSIVE TextsOfLen(_)
TextsOfLen(n) ==
    IF n = 0 THEN {<< >>}
    ELSE {Append(t, ch) : t \in TextsOfLen(n - 1), ch \in Chars}
Texts == UNION {TextsOfLen(n) : n \in 0..MaxTextLen}

\* content.replace(/\r\n/g, '\n')
RECURSIVE replaceCRLF(_)
replaceCRLF(t) ==
    IF Len(t) < 2 THEN t
    ELSE IF t[1] = "CR" /\ t[2] = "LF"
    THEN <<"LF">> \o replaceCRLF(SubSeq(t, 3, Len(t)))
    ELSE <<t[1]>> \o replaceCRLF(Tail(t))

\* t.split('\n'): the lines, one more than there are line feeds
RECURSIVE splitLines(_)
splitLines(t) ==
    IF \A i \in 1..Len(t) : t[i] # "LF" THEN <<t>>
    ELSE LET i == CHOOSE k \in 1..Len(t) :
                      t[k] = "LF" /\ \A j \in 1..(k - 1) : t[j] # "LF"
         IN  <<SubSeq(t, 1, i - 1)>> \o splitLines(SubSeq(t, i + 1, Len(t)))

\* lines.join('\n')
RECURSIVE joinLines(_)
joinLines(lines) ==
    IF Len(lines) = 1 THEN lines[1]
    ELSE lines[1] \o <<"LF">> \o joinLines(Tail(lines))

\* the line without its trailing characters of the set
RECURSIVE trimEndOf(_, _)
trimEndOf(line, set) ==
    IF line # << >> /\ line[Len(line)] \in set
    THEN trimEndOf(SubSeq(line, 1, Len(line) - 1), set)
    ELSE line

\* line.trimEnd()
trimEnd(line) == trimEndOf(line, JsWhiteSpace)

\* normalizeContent on a text given by its characters
normalizeText(content) ==
    LET lines == splitLines(replaceCRLF(content))
    IN  joinLines([i \in 1..Len(lines) |-> trimEnd(lines[i])])

\* computeHash on a text given by its characters
hashText(content) == <<"sha256", normalizeText(content)>>

InitNormalize ==
    /\ disk = [p \in RelPaths |-> NoFile]
    /\ manifest = EmptyManifest
    /\ lastIndexed = 0
    /\ files = EmptyFiles
    /\ chunks = {}
    /\ storedModel = NoModel
    /\ currentModel = MODEL_NAME
    /\ now = 1
    /\ lastOp = Op("init")
    /\ results \in {[text |-> t, normalized |-> << >>, renormalized |-> << >>,
                      hash |-> << >>, hashWithNewline |-> << >>] :
                     t \in Texts}
    /\ embedder = NoEmbedder
    /\ txn = NoTxn

\* the text is normalized, its normal form is normalized again, and the
\* text is hashed as it is and with one more line feed
Normalize ==
    /\ results' = [results EXCEPT
                      !.normalized = normalizeText(results.text),
                      !.renormalized =
                          normalizeText(normalizeText(results.text)),
                      !.hash = hashText(results.text),
                      !.hashWithNewline =
                          hashText(Append(results.text, "LF"))]
    /\ lastOp' = Op("normalize")
    /\ UNCHANGED <<disk, manifest, lastIndexed, files, chunks, storedModel,
                   currentModel, now, embedder, txn>>

NextNormalize == Normalize

SpecNormalize == InitNormalize /\ [][NextNormalize]_vars

(***************************************************************************)
(* upsertFileChunks statement by statement: files and chunks are what is   *)
(* committed to the database file, txn.work is what the open transaction   *)
(* sees                                                                    *)
(***************************************************************************)
\* every statement is committed on its own
committedAfter_autocommit(pc, work, committed) == work

\* what the database file holds after a statement of the transaction: the
\* working copy once the transaction function returned, else what it held
committedAfter(pc, work, committed) ==
    IF pc = "commit" THEN work ELSE committed

\* database.transaction(() => { ... }) is entered
beginUpsert(st, filePath, fileHash, rows, importance) ==
    [active |-> TRUE, filePath |-> filePath, fileHash |-> fileHash,
     rows |-> rows,
     importance |-> IF importance = undefined THEN DEFAULT_IMPORTANCE
                    ELSE importance,
     pc |-> "deleteChunks", next |-> 1, work |-> st]

\* the next statement of the transaction function
runStatement(t, time) ==
    CASE t.pc = "deleteChunks" ->
            [t EXCEPT !.work.chunks =
                          {c \in t.work.chunks : c.source_file # t.filePath},
                      !.pc = "deleteFile"]
      [] t.pc = "deleteFile" ->
            [t EXCEPT !.work.files[t.filePath] = NoRec,
                      !.pc = "insertFile"]
      [] t.pc = "insertFile" ->
            [t EXCEPT !.work.files[t.filePath] =
                          FileRec(t.fileHash, time, 0, t.importance),
                      !.pc = IF Len(t.rows) = 0 THEN "commit"
                             ELSE "insertChunk"]
      [] t.pc = "insertChunk" ->
            [t EXCEPT !.work.chunks = t.work.chunks \cup {t.rows[t.next]},
                      !.next = t.next + 1,
                      !.pc = IF t.next = Len(t.rows) THEN "commit"
                             ELSE "insertChunk"]
      [] t.pc = "commit" -> t

UpsertPaths == {Join(ProjectRoot, p) : p \in KnowledgePaths}

\* indexFile reaches upsertFileChunks with the chunks of a content
BeginUpsert(filePath, content) ==
    /\ ~txn.active
    /\ LET parsed == parseChunks(content)
           rows == [i \in 1..Len(parsed) |->
                       ChunkRow(filePath, i, parsed[i], currentModel)]
       IN  txn' = beginUpsert([files |-> files, chunks |-> chunks], filePath,
                              calculateFileHash(content), rows,
                              parseImportance(content))
    /\ lastOp' = Op("beginUpsert")
    /\ results' = NoResult
    /\ UNCHANGED <<disk, manifest, lastIndexed, files, chunks, storedModel,
                   currentModel, now, embedder>>

\* one statement runs; the last step is the return of the transaction
\* function, which commits
StatementRuns ==
    /\ txn.active
    /\ LET t == runStatement(txn, now)
           st == committedAfter(txn.pc, t.work,
                                [files |-> files, chunks |-> chunks])
       IN  /\ files' = st.files
           /\ chunks' = st.chunks
           /\ txn' = IF txn.pc = "commit" THEN NoTxn ELSE t
    /\ lastOp' = Op(IF txn.pc = "commit" THEN "committed" ELSE "statement")
    /\ results' = NoResult
    /\ UNCHANGED <<disk, manifest, lastIndexed, storedModel, currentModel,
                   now, embedder>>

\* a statement throws: the transaction function rolls back and rethrows
StatementThrows ==
    /\ txn.active
    /\ txn.pc # "commit"
    /\ txn' = NoTxn
    /\ lastOp' = Op("rolledBack")
    /\ results' = [NoResult EXCEPT !.path = txn.filePath.rel,
                                   !.interruptedAt = txn.pc]
    /\ UNCHANGED <<disk, manifest, lastIndexed, files, chunks, storedModel,
                   currentModel, now, embedder>>

\* the process dies inside the transaction; the next start finds what was
\* committed
Crash ==
    /\ txn.active
    /\ txn' = NoTxn
    /\ lastOp' = Op("crashed")
    /\ results' = [NoResult EXCEPT !.path = txn.filePath.rel,
                                   !.interruptedAt = txn.pc]
    /\ UNCHANGED <<disk, manifest, lastIndexed, files, chunks, storedModel,
                   currentModel, now, embedder>>

\* removeFile, a transaction of two deletes
RemoveIndexed(filePath) ==
    /\ ~txn.active
    /\ files[filePath].present
    /\ LET st == removeFile([files |-> files, chunks |-> chunks], filePath)
       IN  files' = st.files /\ chunks' = st.chunks
    /\ lastOp' = Op("removeFile")
    /\ results' = NoResult
    /\ UNCHANGED <<disk, manifest, lastIndexed, storedModel, currentModel,
                   now, embedder, txn>>

NextUpsert ==
    \/ \E a \in UpsertPaths : \E c \in {"v1", "v2"} : BeginUpsert(a, c)
    \/ StatementRuns
    \/ StatementThrows
    \/ Crash
    \/ \E a \in UpsertPaths : RemoveIndexed(a)

SpecUpsert == Init /\ [][NextUpsert]_vars

\* C11: no path is both indexable and auditable.
C11_ClassesAreDisjoint ==
    lastOp.op = "classify" => ~(results.indexable /\ results.auditable)

\* C12: a path is indexable exactly when it lies under the top-level
\* knowledge/ directory and ends with .md.
C12_IndexableIsUnderKnowledge ==
    lastOp.op = "classify" =>
        (results.indexable <=>
            /\ StartsWith(normalizeSeparators(results.path), "knowledge", "/")
            /\ EndsWith(results.path, ".md"))

\* the index agrees with the knowledge files: the model id is the stored
\* one, every knowledge file on disk has the hash of its contents in the
\* manifest, and neither the manifest nor the store names another file
UpToDate ==
    /\ ~modelMismatch(storedModel, currentModel)
    /\ \A p \in RelPaths :
          manifest[p] = (IF /\ StartsWith(p, "knowledge", "/")
                            /\ EndsWith(p, ".md")
                            /\ disk[p] # NoFile
                         THEN computeHash(disk[p]) ELSE NoHash)
    /\ \A a \in IndexedPaths(files) :
          /\ a.root = ProjectRoot
          /\ StartsWith(a.rel, "knowledge", "/")
          /\ disk[a.rel] # NoFile

\* C13: a search that finds the model id and the knowledge files as the
\* last sync left them reports no re-indexing and leaves the manifest, its
\* lastIndexed and every chunk as they were.
C13_FreshIndexIsLeftAlone ==
    [][(lastOp'.op = "search" /\ UpToDate)
          => /\ ~results'.reindexed
             /\ manifest' = manifest
             /\ lastIndexed' = lastIndexed
             /\ chunks' = chunks]_vars

\* a search on a later day than the sync that indexed the file
C13_Witness ==
    /\ lastOp.op = "search"
    /\ ~results.reindexed
    /\ results.hits # {}
    /\ UpToDate
    /\ lastIndexed > 0
    /\ lastIndexed < now

\* C14: a syncProject call that follows a sync with no change to the
\* knowledge files or the model in between writes nothing: the manifest with
\* its lastIndexed, the store and the model id stay as they were.
C14_SecondSyncWritesNothing ==
    [][(lastOp'.op = "syncProject" /\ UpToDate /\ lastIndexed # 0)
          => /\ manifest' = manifest
             /\ lastIndexed' = lastIndexed
             /\ files' = files
             /\ chunks' = chunks
             /\ storedModel' = storedModel]_vars

\* C15: save_knowledge refuses to overwrite: a save is refused exactly when
\* the file named by the sanitized name already exists, and a refused save
\* leaves every file as it was and runs no sync (the manifest, its
\* lastIndexed stamp and the store are untouched)
C15_SaveRefusesToOverwrite ==
    [][(lastOp'.op \in {"saveKnowledge", "saveRefused"})
          => /\ (lastOp'.op = "saveRefused") <=> (disk[results'.path] # NoFile)
             /\ (lastOp'.op = "saveRefused")
                   => /\ disk' = disk
                      /\ manifest' = manifest
                      /\ lastIndexed' = lastIndexed
                      /\ files' = files
                      /\ chunks' = chunks
                      /\ storedModel' = storedModel]_vars

\* a skill named "A" was refused over the hand-written knowledge/a.md, which
\* still has its content and has never been synced
C15_Witness ==
    /\ lastOp = OpSave("saveRefused", "skill")
    /\ results.path = KnowA
    /\ disk[KnowA] = "blank"
    /\ lastIndexed = 0
    /\ manifest = EmptyManifest

\* C16: a save of type skill writes the skill to the autoload locations and
\* changes no file under knowledge/; a save of type context writes
\* knowledge/<name>.md
C16_SkillsGoToAutoload ==
    [][(lastOp'.op = "saveKnowledge")
          => /\ (lastOp'.type = "skill")
                   => /\ \A p \in RelPaths :
                             StartsWith(p, "knowledge", "/")
                                 => disk'[p] = disk[p]
                      /\ \E n \in SaveNames :
                             /\ disk'[claudeSkillFile(n)] # NoFile
                             /\ disk'[opencodeSkillFile(n)] # NoFile
             /\ (lastOp'.type = "context")
                   => /\ StartsWith(results'.path, "knowledge", "/")
                      /\ disk'[results'.path] # NoFile]_vars

\* C17: after a forced index run every knowledge file on disk that yields
\* chunks has its file record and its chunks in the store, whatever the
\* manifest contained before the run
C17_ForceReindexesEverything ==
    lastOp.op = "forceIndex"
        => \A p \in OnDisk(KnowledgePaths) :
              Len(parseChunks(disk[p])) > 0
                  => /\ files[Join(ProjectRoot, p)].present
                     /\ ChunksOfFile(chunks, Join(ProjectRoot, p)) # {}

\* C18: a forget request is refused exactly when both max_files and
\* max_age_days are unspecified; a request that specifies one of them, the
\* value 0 included, runs retention; a refused request removes nothing
C18_ForgetRefusedOnlyWithoutLimits ==
    [][(lastOp'.op \in {"forget", "forgetRefused"})
          => /\ (lastOp'.op = "forgetRefused")
                   <=> /\ lastOp'.config.maxFiles = undefined
                       /\ lastOp'.config.maxAgeDays = undefined
             /\ (lastOp'.op = "forgetRefused")
                   => files' = files /\ chunks' = chunks]_vars

\* C19: the index is portable across a move of the project directory: the
\* first sync or search after the move, with relative paths and contents
\* unchanged, classifies every file as unchanged, reindexes nothing,
\* removes nothing, and every knowledge file keeps a file record and its
\* chunks in the store, so that a search still returns them
C19_IndexSurvivesMove ==
    [][(lastOp.op = "move" /\ lastOp'.op \in {"syncProject", "search"})
          => /\ (lastOp'.op = "syncProject")
                   => /\ results'.unchanged
                             = {Join(ProjectRoot, p) :
                                    p \in OnDisk(KnowledgePaths)}
                      /\ results'.added = {}
                      /\ results'.updated = {}
                      /\ results'.removed = {}
                      /\ ~results'.modelChanged
             /\ (lastOp'.op = "search") => ~results'.reindexed
             /\ \A p \in OnDisk(KnowledgePaths) :
                    \E a \in AbsPaths :
                        /\ a.rel = p
                        /\ files'[a].present
                        /\ ChunksOfFile(chunks', a) # {}]_vars

\* C20: every markdown file under knowledge/ is indexed whatever its name:
\* a sync completes without error, and after it every knowledge file with
\* content has a file record and at least one chunk in the store
C20_EveryKnowledgeFileIsIndexed ==
    lastOp.op \in {"syncProject", "syncFailed"}
        => /\ lastOp.op = "syncProject"
           /\ \A p \in OnDisk(ParsePaths) :
                  disk[p] # "blank"
                      => /\ files[Join(ProjectRoot, p)].present
                         /\ ChunksOfFile(chunks, Join(ProjectRoot, p)) # {}

\* the autoload region: the root context files and what lies under the
\* special directories
InAutoloadRegion(p) ==
    \/ p \in {<<"CLAUDE", ".md">>, <<"AGENTS", ".md">>}
    \/ \E dir \in {".claude", ".codex", ".opencode"} : StartsWith(p, dir, "/")

\* the spec's thresholds of a file, by its name
ClaimedThresholds(p) ==
    IF basename(p) \in {<<"CLAUDE", ".md">>, <<"AGENTS", ".md">>}
    THEN <<500, 1000>> ELSE <<300, 600>>

\* whether the report lists an entry at a level: ceil(chars / 4) > T holds
\* exactly when chars > 4 * T
ReportedAt(list, file) == \E e \in list : e.file = file

\* C21: after an audit every autoload file on disk is reported critical iff
\* its ceil(chars/4) tokens exceed its critical threshold, warning iff they
\* exceed the warning threshold and not the critical one, and not at all
\* otherwise, with (500, 1000) for CLAUDE.md and AGENTS.md and (300, 600)
\* for SKILL.md; the sum is classified against (2000, 5000); no entry is in
\* both lists, and files outside the autoload region are not reported
C21_AuditFollowsThresholds ==
    lastOp.op = "audit"
        => /\ \A p \in RelPaths :
                  IF InAutoloadRegion(p) /\ disk[p] # NoFile
                  THEN LET chars == contentLength(disk[p])
                           w == ClaimedThresholds(p)[1]
                           c == ClaimedThresholds(p)[2]
                       IN  /\ ReportedAt(results.critical, p) <=> chars > 4 * c
                           /\ ReportedAt(results.warnings, p)
                                 <=> (chars > 4 * w /\ chars <= 4 * c)
                  ELSE /\ ~ReportedAt(results.critical, p)
                       /\ ~ReportedAt(results.warnings, p)
           /\ ReportedAt(results.critical, <<"TOTAL">>)
                 <=> results.totalAutoloadTokens > 5000
           /\ ReportedAt(results.warnings, <<"TOTAL">>)
                 <=> /\ results.totalAutoloadTokens > 2000
                     /\ results.totalAutoloadTokens <= 5000
           /\ \A e \in results.warnings : \A f \in results.critical :
                  e.file # f.file

\* CLAUDE.md at exactly 1000 tokens is a warning, SKILL.md at 301 tokens
\* (1201 characters) is a warning, AGENTS.md at 1001 tokens is critical,
\* and the sum of 2302 is a warning
C21_Witness ==
    /\ lastOp.op = "audit"
    /\ disk[ClaudeMd] = "x4000"
    /\ disk[SkillMd] = "x1201"
    /\ disk[AgentsMd] = "x4001"
    /\ disk[KnowA] = "x12000"
    /\ AuditEntry(ClaudeMd, 1000, "warning") \in results.warnings
    /\ AuditEntry(SkillMd, 301, "warning") \in results.warnings
    /\ AuditEntry(AgentsMd, 1001, "critical") \in results.critical
    /\ AuditEntry(<<"TOTAL">>, 2302, "warning") \in results.warnings

\* C22: the model load is lazy, at most once per process and bounded: no
\* load starts before the first call; whatever the interleaving of the
\* callers one load sequence runs at most, with at most 3 attempts; every
\* caller that was resumed holds the outcome of that sequence, and the error
\* is handed out only after all 3 attempts failed
C22_ModelLoadedAtMostOnce ==
    /\ (\A c \in Callers : embedder.callers[c].status = "idle")
          => /\ embedder.sequences = 0
             /\ embedder.attempts = 0
             /\ embedder.embeddingPipeline = "null"
    /\ embedder.sequences <= 1
    /\ embedder.attempts <= 3
    /\ \A c \in Callers :
          /\ embedder.callers[c].status = "ok"
                => embedder.initPromise = "resolved"
          /\ embedder.callers[c].status = "error"
                => embedder.initPromise = "rejected" /\ embedder.attempts = 3

\* two callers were in flight during one load sequence whose 3 attempts all
\* failed, and both received the error
C22_Witness ==
    /\ embedder.sequences = 1
    /\ embedder.attempts = 3
    /\ embedder.initPromise = "rejected"
    /\ \A c \in {1, 2} : embedder.callers[c].status = "error"
    /\ embedder.callers[1].via = "embed"
    /\ embedder.callers[2].via = "preload"

\* the normal form the specification describes: every CRLF becomes LF and
\* the trailing spaces and tabs of each line are removed, nothing else
MinimalNormalForm(t) ==
    LET lines == splitLines(replaceCRLF(t))
    IN  joinLines([i \in 1..Len(lines) |->
                      trimEndOf(lines[i], {"SP", "TAB"})])

\* C23: normalization is idempotent and minimal: normalizing the normal
\* form changes nothing, and the normal form is the text with every CRLF
\* replaced by LF and the trailing spaces and tabs of each line removed; a
\* lone CR or a no-break space at the end of a line stays
C23_NormalizationIsMinimal ==
    lastOp.op = "normalize"
        => /\ results.renormalized = results.normalized
           /\ results.normalized = MinimalNormalForm(results.text)

\* C24: for every text that already ends in a line feed, the hash of the
\* text with one more line feed equals the hash of the text
C24_TrailingNewlineKeepsHash ==
    (lastOp.op = "normalize"
       /\ results.text # << >>
       /\ results.text[Len(results.text)] = "LF")
        => results.hashWithNewline = results.hash

\* two contents that differ only in line endings and trailing blanks
CosmeticVariants(c0, c1) == {c0, c1} = {"v1", "v1ws"}

\* manifest and store both hold the file as indexed from content c0
IndexedFrom(p, c0) ==
    /\ manifest[p] = computeHash(c0)
    /\ files[Join(ProjectRoot, p)].present
    /\ files[Join(ProjectRoot, p)].hash = calculateFileHash(c0)
    /\ ChunksOfFile(chunks, Join(ProjectRoot, p)) # {}

\* C25: cosmetic edits do not trigger re-indexing: when the content of a
\* knowledge file differs from the indexed content only in line endings or
\* trailing blanks, the next sync classifies the file as unchanged, does
\* not upsert it, and leaves its manifest hash, its chunks, its
\* access_count and its last_accessed as they were
C25_CosmeticEditsAreIgnored ==
    [][(lastOp'.op = "syncProject"
          /\ \E c0 \in Contents :
                 /\ IndexedFrom(KnowA, c0)
                 /\ CosmeticVariants(c0, disk[KnowA]))
          => LET a == Join(ProjectRoot, KnowA)
             IN  /\ a \in results'.unchanged
                 /\ a \notin results'.updated \cup results'.added
                 /\ manifest'[KnowA] = manifest[KnowA]
                 /\ ChunksOfFile(chunks', a) = ChunksOfFile(chunks, a)
                 /\ files'[a] = files[a]]_vars

\* a sync on a later day left alone the file that was indexed as v1,
\* searched once, and then saved with other line endings
C25_Witness ==
    /\ lastOp.op = "syncProject"
    /\ disk[KnowA] = "v1ws"
    /\ Join(ProjectRoot, KnowA) \in results.unchanged
    /\ files[Join(ProjectRoot, KnowA)].present
    /\ files[Join(ProjectRoot, KnowA)].hash = calculateFileHash("v1")
    /\ files[Join(ProjectRoot, KnowA)].access_count = 1
    /\ files[Join(ProjectRoot, KnowA)].last_accessed < now
    /\ manifest[KnowA] = computeHash("v1")

\* C26: after a sync, for every manifest entry (p, h) the store has a file
\* record for p whose content hash equals h, whatever the content of the
\* file: CRLF line endings, trailing blanks, no chunks
C26_ManifestHashIsStoredHash ==
    lastOp.op = "syncProject"
        => \A p \in ManifestKeys(manifest) :
              /\ files[Join(ProjectRoot, p)].present
              /\ files[Join(ProjectRoot, p)].hash = manifest[p]

\* the record of a path with its chunks
PathState(fs, cs, a) == [rec |-> fs[a], chunks |-> ChunksOfFile(cs, a)]

\* C27: upsertFile is atomic: across every step, a failure or a crash in
\* the middle of an upsert included, each path keeps its complete prior
\* record with all its prior chunks, or gets the complete new record of the
\* open upsert with all its new chunks, or (by removeFile) has neither
\* record nor chunks; never a mixture or a part
C27_UpsertIsAtomic ==
    [][\A a \in AbsPaths :
          \/ PathState(files', chunks', a) = PathState(files, chunks, a)
          \/ /\ txn.active
             /\ a = txn.filePath
             /\ PathState(files', chunks', a)
                   = [rec |-> FileRec(txn.fileHash, now, 0, txn.importance),
                      chunks |-> {txn.rows[i] : i \in 1..Len(txn.rows)}]
          \/ /\ lastOp'.op = "removeFile"
             /\ PathState(files', chunks', a)
                   = [rec |-> NoRec, chunks |-> {}]]_vars

\* the process died after the first of the two chunks of the new content
\* was inserted, and knowledge/a.md still has the record and the one chunk
\* of its prior content
C27_Witness ==
    /\ lastOp.op = "crashed"
    /\ results.path = KnowA
    /\ results.interruptedAt = "insertChunk"
    /\ files[Join(ProjectRoot, KnowA)].present
    /\ files[Join(ProjectRoot, KnowA)].hash = calculateFileHash("v1")
    /\ Cardinality(ChunksOfFile(chunks, Join(ProjectRoot, KnowA))) = 1
    /\ \A c \in ChunksOfFile(chunks, Join(ProjectRoot, KnowA)) :
          c.text = "alpha"

\* C28: in every reachable state of the store every chunk has a file
\* record for its source_file, after any sequence of upserts, removals,
\* retention runs and clears
C28_NoOrphanChunks ==
    \A c \in chunks : files[c.source_file].present

\* a retention run removed one of two indexed files and the chunks that
\* are left belong to the file that was kept
C28_Witness ==
    /\ lastOp.op = "forget"
    /\ results.removed # {}
    /\ chunks # {}
    /\ \A c \in chunks : files[c.source_file].present
    /\ \A a \in results.removed : ChunksOfFile(chunks, a) = {}

(***************************************************************************)
(* Search with deduplication by source file                                *)
(***************************************************************************)
\* the best score a file reaches among the ranked chunks
bestScore(top, query, a) ==
    CHOOSE m \in {adjustedScore(query, c) : c \in ChunksOfFile(top, a)} :
        \A c \in ChunksOfFile(top, a) : adjustedScore(query, c) <= m

\* the loop of searchUnique over the ranked results: the first result of each
\* file in rank order, until `limit` files were seen
uniqueResults(top, query, limit) ==
    LET seen == {c.source_file : c \in top}
    IN  {U \in SUBSET top :
            /\ Cardinality(U) = MinOf(limit, Cardinality(seen))
            /\ \A c \in U : \A u \in U :
                   c.source_file = u.source_file => c = u
            /\ \A c \in U :
                   adjustedScore(query, c) = bestScore(top, query,
                                                       c.source_file)
            /\ \A c \in U : \A a \in seen \ {u.source_file : u \in U} :
                   adjustedScore(query, c) >= bestScore(top, query, a)}

\* searchUnique: search with three times the limit, then deduplicate
SearchUnique(query, limit) ==
    LET s == ensureIndexFresh(Current, ProjectRoot, disk, currentModel, now)
    IN  \E top \in topResults(s.store.chunks, query, limit * 3) :
        \E unique \in uniqueResults(top, query, limit) :
          LET accessedFiles == {c.source_file : c \in top}
          IN  /\ \A a \in accessedFiles :
                    s.store.files[a].present
                        => s.store.files[a].access_count < MaxAccess
              /\ manifest' = s.manifest
              /\ lastIndexed' = s.lastIndexed
              /\ storedModel' = s.storedModel
              /\ chunks' = s.store.chunks
              /\ files' = touchFiles(s.store.files, accessedFiles, now)
              /\ results' = [NoResult EXCEPT
                                !.hits = unique,
                                !.reindexed = s.result.reindexed]
              /\ lastOp' = Op("searchUnique")
              /\ UNCHANGED <<disk, currentModel, now, embedder, txn>>

\* the search tool with and without unique_files over the knowledge tree,
\* within one day
NextSearch ==
    \/ \E p \in KnowledgePaths : \E c \in KnowledgeContents : WriteFile(p, c)
    \/ SyncProject
    \/ \E q \in Queries : \E l \in {1, DEFAULT_LIMIT} : Search(q, l)
    \/ \E q \in Queries : \E l \in {1, DEFAULT_LIMIT} : SearchUnique(q, l)

SpecSearch == Init /\ [][NextSearch]_vars

\* C29: while a file stays indexed its access_count never decreases across
\* searches and syncs, a re-index of the file after a modification included
C29_AccessCountMonotonic ==
    [][lastOp'.op \in {"search", "syncProject"} =>
         \A a \in DOMAIN files :
             files[a].present /\ files'[a].present
                 => files'[a].access_count >= files[a].access_count]_vars

\* C30: a search, with or without uniqueFiles, adds exactly 1 to access_count
\* and sets last_accessed for each file of the results it returns, and leaves
\* both fields of every other file as the freshness check left them
C30_SearchTouchesReturnedFiles ==
    [][lastOp'.op \in {"search", "searchUnique"} =>
         LET s == ensureIndexFresh(Current, ProjectRoot, disk, currentModel,
                                   now)
             before == s.store.files
             returned == {c.source_file : c \in results'.hits}
         IN  \A a \in DOMAIN files :
                 before[a].present =>
                     IF a \in returned
                     THEN /\ files'[a].access_count
                               = before[a].access_count + 1
                          /\ files'[a].last_accessed = now
                     ELSE /\ files'[a].access_count = before[a].access_count
                          /\ files'[a].last_accessed
                               = before[a].last_accessed]_vars

(***************************************************************************)
(* Ranking: the results of a search as the ordered list the caller gets    *)
(***************************************************************************)
MaxLimit == 2

\* the source_type column of a chunk row, which the parser chooses by the
\* name of the file: 'skill', 'agents-md' or 'claude-md' in parseSkillFile
\* and parseContextFile, 'knowledge' for every other knowledge file
sourceTypeOf(filePath) ==
    IF EndsWithName(filePath.rel, "skill") THEN "skill"
    ELSE IF EndsWithName(filePath.rel, "agents") THEN "agents-md"
    ELSE IF EndsWithName(filePath.rel, "claude") THEN "claude-md"
    ELSE "knowledge"

SourceTypeFilters == {{}, {"skill"}, {"claude-md"}}

\* every row whatever the filter
getAllChunks_unfiltered(cs, sourceTypes) == cs

\* getAllChunks: no filter when sourceTypes is undefined or empty
getAllChunks(cs, sourceTypes) ==
    IF sourceTypes = {} THEN cs
    ELSE {c \in cs : sourceTypeOf(c.source_file) \in sourceTypes}

\* the rows ORDER BY priority DESC, filtered by the threshold, after the
\* stable sort by score descending: every order the build can produce
sortedByScore(cs, query) ==
    LET scored == scoredChunks(cs, query)
        n == Cardinality(scored)
    IN  {r \in [1..n -> scored] :
            /\ \A i \in 1..n : \A j \in 1..n : i # j => r[i] # r[j]
            /\ \A i \in 1..n : \A j \in 1..n :
                   i < j =>
                     \/ adjustedScore(query, r[i]) > adjustedScore(query, r[j])
                     \/ /\ adjustedScore(query, r[i])
                             = adjustedScore(query, r[j])
                        /\ r[i].priority >= r[j].priority}

\* Array.prototype.slice(0, limit) for limit >= 0
sliceTo(r, limit) == SubSeq(r, 1, MinOf(limit, Len(r)))

\* const { limit = DEFAULT_LIMIT } = options
limitOrDefault(limit) == IF limit = undefined THEN DEFAULT_LIMIT ELSE limit

\* options.limit || DEFAULT_LIMIT: undefined and 0 are both falsy
limitOr(limit) == IF limit \in {undefined, 0} THEN DEFAULT_LIMIT ELSE limit

\* the loop of searchUnique over allResults, from position i on
RECURSIVE uniqueFold(_, _, _, _)
uniqueFold(r, i, out, cap) ==
    IF i > Len(r) THEN out
    ELSE IF \E k \in 1..Len(out) : out[k].source_file = r[i].source_file
    THEN uniqueFold(r, i + 1, out, cap)
    ELSE IF Len(out) + 1 >= cap THEN Append(out, r[i])
    ELSE uniqueFold(r, i + 1, Append(out, r[i]), cap)

RankResult(op, query, limit, sourceTypes, ranked) ==
    [hits |-> {ranked[i] : i \in 1..Len(ranked)}, ranked |-> ranked,
     query |-> query, limit |-> limit, sourceTypes |-> sourceTypes]

\* search with the options of the caller: ensureIndexFresh, getAllChunks,
\* score, sort, slice, touchFiles
SearchRanked(query, limit, sourceTypes) ==
    LET s == ensureIndexFresh(Current, ProjectRoot, disk, currentModel, now)
        all == getAllChunks(s.store.chunks, sourceTypes)
    IN  \E sorted \in sortedByScore(all, query) :
          LET topR == sliceTo(sorted, limitOrDefault(limit))
              accessedFiles == {topR[i].source_file : i \in 1..Len(topR)}
          IN  /\ \A a \in accessedFiles :
                    s.store.files[a].access_count < MaxAccess
              /\ manifest' = s.manifest
              /\ lastIndexed' = s.lastIndexed
              /\ storedModel' = s.storedModel
              /\ chunks' = s.store.chunks
              /\ files' = touchFiles(s.store.files, accessedFiles, now)
              /\ results' = RankResult("search", query, limit, sourceTypes,
                                       topR)
              /\ lastOp' = Op("searchRanked")
              /\ UNCHANGED <<disk, currentModel, now, embedder, txn>>

\* searchUnique with the options of the caller
SearchUniqueRanked(query, limit, sourceTypes) ==
    LET s == ensureIndexFresh(Current, ProjectRoot, disk, currentModel, now)
        all == getAllChunks(s.store.chunks, sourceTypes)
    IN  \E sorted \in sortedByScore(all, query) :
          LET allResults == sliceTo(sorted, limitOr(limit) * 3)
              accessedFiles ==
                  {allResults[i].source_file : i \in 1..Len(allResults)}
          IN  /\ \A a \in accessedFiles :
                    s.store.files[a].access_count < MaxAccess
              /\ manifest' = s.manifest
              /\ lastIndexed' = s.lastIndexed
              /\ storedModel' = s.storedModel
              /\ chunks' = s.store.chunks
              /\ files' = touchFiles(s.store.files, accessedFiles, now)
              /\ results' = RankResult("searchUnique", query, limit,
                                sourceTypes,
                                uniqueFold(allResults, 1, << >>,
                                           limitOr(limit)))
              /\ lastOp' = Op("searchUniqueRanked")
              /\ UNCHANGED <<disk, currentModel, now, embedder, txn>>

RankPaths == {KnowA, KnowClaude}

LimitValues == {undefined} \cup (0..MaxLimit)

NextRank ==
    \/ \E p \in RankPaths : \E c \in {"v1", "v2"} : WriteFile(p, c)
    \/ \E q \in {"alpha", "any"} : \E l \in LimitValues :
       \E st \in SourceTypeFilters : SearchRanked(q, l, st)
    \/ \E q \in {"alpha", "any"} : \E l \in LimitValues :
       \E st \in SourceTypeFilters : SearchUniqueRanked(q, l, st)

SpecRank == Init /\ [][NextRank]_vars

\* the stored chunks a search with these options may return
Eligible(query, sourceTypes) ==
    {c \in chunks :
        /\ sourceTypes # {} => sourceTypeOf(c.source_file) \in sourceTypes
        /\ cosineSimilarity(query, c.text) * (100 + 2 * c.priority)
              >= THRESHOLD_PERMILLE * 100}

\* C31: search returns exactly the up-to-limit highest-scoring chunks, in
\* descending order of adjusted score, among the stored chunks that match
\* sourceTypes and whose adjusted score is at least the threshold
C31_SearchReturnsTopLimit ==
    lastOp.op = "searchRanked" =>
        LET r == results.ranked
            el == Eligible(results.query, results.sourceTypes)
            lim == IF results.limit = undefined THEN DEFAULT_LIMIT
                   ELSE results.limit
        IN  /\ Len(r) = MinOf(lim, Cardinality(el))
            /\ \A i \in 1..Len(r) : r[i] \in el
            /\ \A i \in 1..Len(r) : \A j \in 1..Len(r) : i # j => r[i] # r[j]
            /\ \A i \in 1..Len(r) : \A j \in 1..Len(r) :
                   i < j => adjustedScore(results.query, r[i])
                               >= adjustedScore(results.query, r[j])
            /\ \A c \in el \ results.hits : \A i \in 1..Len(r) :
                   adjustedScore(results.query, r[i])
                       >= adjustedScore(results.query, c)

C31_Witness ==
    /\ lastOp.op = "searchRanked"
    /\ results.limit = 1
    /\ results.sourceTypes = {"claude-md"}
    /\ Len(results.ranked) = 1
    /\ Cardinality(Eligible(results.query, results.sourceTypes)) = 2
    /\ Cardinality(Eligible(results.query, {})) > 2

\* C32: searchUnique returns at most limit results for every limit >= 0,
\* each source file at most once, and the chunk kept for a file is the
\* highest-scored chunk of that file
C32_UniqueReturnsAtMostLimit ==
    lastOp.op = "searchUniqueRanked" /\ results.limit # undefined =>
        LET r == results.ranked
            el == Eligible(results.query, results.sourceTypes)
        IN  /\ Len(r) <= results.limit
            /\ \A i \in 1..Len(r) : \A j \in 1..Len(r) :
                   i # j => r[i].source_file # r[j].source_file
            /\ \A i \in 1..Len(r) : \A c \in el :
                   c.source_file = r[i].source_file
                       => adjustedScore(results.query, r[i])
                             >= adjustedScore(results.query, c)

(***************************************************************************)
(* A path that is deleted and written again between two syncs              *)
(***************************************************************************)
\* the file is deleted and a file of the same path is created, with no
\* sync in between
Recreate(p, c) ==
    /\ disk[p] # NoFile
    /\ disk' = [disk EXCEPT ![p] = c]
    /\ lastOp' = Op("recreate")
    /\ results' = [NoResult EXCEPT !.path = p]
    /\ UNCHANGED <<manifest, lastIndexed, files, chunks, storedModel,
                   currentModel, now, embedder, txn>>

NextRecreate ==
    \/ \E p \in KnowledgePaths : \E c \in KnowledgeContents : WriteFile(p, c)
    \/ \E p \in KnowledgePaths : DeleteFile(p)
    \/ \E p \in KnowledgePaths : \E c \in KnowledgeContents : Recreate(p, c)
    \/ SyncProject
    \/ \E q \in Queries : Search(q, DEFAULT_LIMIT)

SpecRecreate == Init /\ [][NextRecreate]_vars

\* C33: a sync applies its removals before its insertions, so that an
\* indexed path that was deleted and recreated since the last sync has,
\* after the sync, exactly the chunks of its recreated contents
C33_RecreatedPathHasItsNewChunks ==
    [][/\ lastOp.op = "recreate"
       /\ files[Join(ProjectRoot, results.path)].present
       /\ lastOp'.op \in {"syncProject", "search"}
       => ChunksOfFile(chunks', Join(ProjectRoot, results.path))
            = EmbedChunks(Join(ProjectRoot, results.path),
                          parseChunks(disk[results.path]), currentModel)]_vars

(***************************************************************************)
(* A sync that is interrupted: the store is written file by file, the      *)
(* manifest is kept in memory and saved once, after the two loops          *)
(***************************************************************************)
InterruptPaths == {KnowA, KnowB, KnowClaude}

\* the process ends inside checkModelConsistency, after clearDatabase and
\* before the empty manifest is written
InterruptedAfterClear ==
    /\ modelMismatch(storedModel, currentModel)
    /\ files' = clearDatabase(Current.store).files
    /\ chunks' = clearDatabase(Current.store).chunks
    /\ results' = [NoResult EXCEPT !.interruptedAt = "clearDatabase"]
    /\ lastOp' = Op("syncInterrupted")
    /\ UNCHANGED <<disk, manifest, lastIndexed, storedModel, currentModel,
                   now, embedder, txn>>

\* the process ends between two file operations of the loops of
\* syncProject or ensureIndexFresh, or during the embedding call of a file:
\* the removals and insertions before that point are in the store, and
\* saveManifest and setEmbeddingModel were not reached
InterruptedInLoops ==
    LET s1 == checkModelConsistency(Current, currentModel)
        found == discoverFiles(ProjectRoot, disk)
        plan == getFilesToIndex(ProjectRoot, disk, s1.manifest, s1.store,
                                found)
    IN  \E removedSoFar \in SUBSET plan.toRemove :
        \E indexedSoFar \in SUBSET plan.toIndex :
            /\ indexedSoFar # {} => removedSoFar = plan.toRemove
            /\ removedSoFar \cup indexedSoFar
                   # plan.toRemove \cup plan.toIndex
            /\ LET st == indexAll(removeAll(s1.store, removedSoFar),
                                  ProjectRoot, disk, indexedSoFar,
                                  currentModel, now)
               IN  /\ files' = st.files
                   /\ chunks' = st.chunks
            /\ manifest' = s1.manifest
            /\ lastIndexed' = s1.lastIndexed
            /\ storedModel' = s1.storedModel
            /\ results' = [NoResult EXCEPT !.interruptedAt = "loop"]
            /\ lastOp' = Op("syncInterrupted")
            /\ UNCHANGED <<disk, currentModel, now, embedder, txn>>

\* three knowledge files, one embedding model
NextInterrupt ==
    \/ \E c \in {"v1", "v2"} : WriteFile(KnowA, c)
    \/ \E p \in {KnowB, KnowClaude} : WriteFile(p, "v1")
    \/ \E p \in InterruptPaths : DeleteFile(p)
    \/ InterruptedInLoops
    \/ SyncProject

SpecInterrupt == Init /\ [][NextInterrupt]_vars

\* two knowledge files, builds with different embedding models
NextHeal ==
    \/ \E p \in KnowledgePaths : \E c \in {"v1", "v2"} : WriteFile(p, c)
    \/ \E p \in KnowledgePaths : DeleteFile(p)
    \/ ChangeModel
    \/ InterruptedAfterClear
    \/ InterruptedInLoops
    \/ SyncProject

SpecHeal == Init /\ [][NextHeal]_vars

\* the manifest entry of a path and the record of the store say the same
AgreeAt(m, fs, p) ==
    IF m[p] = NoHash THEN ~fs[Join(ProjectRoot, p)].present
    ELSE /\ fs[Join(ProjectRoot, p)].present
         /\ fs[Join(ProjectRoot, p)].hash = m[p]

\* C34: a sync that is interrupted between two file operations or during
\* an embedding call, started where manifest and store agree, leaves at
\* most one path whose manifest entry disagrees with the record of the store
C34_InterruptLeavesAtMostOneFileApart ==
    [][/\ \A p \in InterruptPaths : AgreeAt(manifest, files, p)
       /\ lastOp'.op = "syncInterrupted"
       /\ results'.interruptedAt = "loop"
       => Cardinality({p \in InterruptPaths :
                          /\ manifest'[p] # NoHash
                          /\ ~AgreeAt(manifest', files', p)}) <= 1]_vars

\* manifest, store and the knowledge files on disk agree
HealedAt(p) ==
    LET a == Join(ProjectRoot, p)
    IN  IF disk[p] = NoFile
        THEN /\ manifest[p] = NoHash
             /\ ~files[a].present
             /\ ChunksOfFile(chunks, a) = {}
        ELSE /\ manifest[p] = computeHash(disk[p])
             /\ files[a].present
             /\ ChunksOfFile(chunks, a)
                  = EmbedChunks(a, parseChunks(disk[p]), currentModel)

\* C35: once a sync has run to completion, whatever syncs were interrupted
\* before it (between clearing the store and erasing the manifest on a
\* model change included), manifest, store and the knowledge files on disk
\* agree: every file has the chunks of its current contents and a matching
\* manifest hash, and nothing else is stored
C35_CompletedSyncHeals ==
    lastOp.op = "syncProject" =>
        /\ \A p \in KnowledgePaths : HealedAt(p)
        /\ \A c \in chunks : Relative(ProjectRoot, c.source_file)
                                \in KnowledgePaths

(***************************************************************************)
(* forgetStaleFiles that fails part-way: one removeFile per stale file,    *)
(* each a transaction of its own                                           *)
(***************************************************************************)
\* a removeFile of the loop throws, or the process ends inside the loop:
\* the files before it are removed and stay removed
ForgetStaleFails(config) ==
    \E stale \in getStaleFiles(files, config, now) :
    \E removedSoFar \in SUBSET stale :
        LET st == removeAll(Current.store, removedSoFar)
        IN  /\ removedSoFar # stale
            /\ files' = st.files
            /\ chunks' = st.chunks
            /\ results' = [stale |-> stale, removed |-> removedSoFar]
            /\ lastOp' = [OpForget(config) EXCEPT !.op = "forgetFailed"]
            /\ UNCHANGED <<disk, manifest, lastIndexed, storedModel,
                           currentModel, now, embedder, txn>>

NextForgetFails ==
    \/ \E p \in KnowledgePaths : \E c \in {"v1", "v2"} : WriteFile(p, c)
    \/ Tick
    \/ SyncProject
    \/ \E mf \in {0, 1} : \E ma \in {undefined, 0} :
           ForgetStale(RetentionConfig(mf, ma, undefined))
    \/ \E mf \in {0, 1} : \E ma \in {undefined, 0} :
           ForgetStaleFails(RetentionConfig(mf, ma, undefined))

SpecForgetFails == Init /\ [][NextForgetFails]_vars

\* C36: forgetStale deletes the stale set in one transaction: when it
\* returns every file of the set is removed, and when it fails part-way
\* none of them is removed
C36_ForgetIsAllOrNothing ==
    /\ lastOp.op = "forget" =>
           \A a \in results.removed : ~files[a].present
    /\ lastOp.op = "forgetFailed" =>
           \A a \in results.stale : files[a].present

(***************************************************************************)
(* Read errors during a sync: readFileSync throws, nothing catches it      *)
(***************************************************************************)
\* a file that readdir lists and readFileSync cannot read (EACCES)
Unreadable == "unreadable"

\* syncProject over a tree that may hold an unreadable file: the loop of
\* getFilesToIndex reads every file found, so the throw comes after
\* checkModelConsistency and before the first removal or insertion
SyncOrThrow ==
    LET s1 == checkModelConsistency(Current, currentModel)
        found == discoverFiles(ProjectRoot, disk)
    IN  IF \E f \in found : disk[Relative(ProjectRoot, f)] = Unreadable
        THEN /\ Install(s1)
             /\ results' = NoResult
             /\ lastOp' = Op("syncFailed")
             /\ UNCHANGED <<disk, currentModel, now, embedder, txn>>
        ELSE SyncProject

\* a file vanishes after discovery: before its hash is taken (the throw of
\* getFilesToIndex, nothing written yet), or after the plan was made and
\* before it is parsed (the throw of indexFile, after the removals and the
\* files indexed before it, and before saveManifest)
SyncFileVanishes(p) ==
    LET s1 == checkModelConsistency(Current, currentModel)
        found == discoverFiles(ProjectRoot, disk)
        plan == getFilesToIndex(ProjectRoot, disk, s1.manifest, s1.store,
                                found)
        f == Join(ProjectRoot, p)
    IN  /\ f \in found
        /\ \A g \in found : disk[Relative(ProjectRoot, g)] # Unreadable
        /\ disk' = [disk EXCEPT ![p] = NoFile]
        /\ \/ Install(s1)
           \/ /\ f \in plan.toIndex
              /\ \E before \in SUBSET (plan.toIndex \ {f}) :
                    Install([s1 EXCEPT
                               !.store = indexAll(
                                   removeAll(s1.store, plan.toRemove),
                                   ProjectRoot, disk, before, currentModel,
                                   now)])
        /\ results' = [NoResult EXCEPT !.path = p]
        /\ lastOp' = Op("syncFailed")
        /\ UNCHANGED <<currentModel, now, embedder, txn>>

NextReadError ==
    \/ \E p \in KnowledgePaths : \E c \in {"v1", "v2", Unreadable} :
           WriteFile(p, c)
    \/ \E p \in KnowledgePaths : DeleteFile(p)
    \/ Tick
    \/ SyncOrThrow
    \/ \E p \in KnowledgePaths : SyncFileVanishes(p)

SpecReadError == Init /\ [][NextReadError]_vars

\* C37: a read error on one knowledge file makes the sync skip that file
\* and continue: the sync completes, and every other file that is on disk
\* and readable is indexed and recorded in the manifest with its hash
C37_ReadErrorSkipsOneFile ==
    lastOp.op \in {"syncProject", "syncFailed"} =>
        /\ lastOp.op = "syncProject"
        /\ \A p \in KnowledgePaths :
               disk[p] \notin {NoFile, Unreadable} =>
                   /\ manifest[p] = computeHash(disk[p])
                   /\ files[Join(ProjectRoot, p)].present

(***************************************************************************)
(* The chunkers of src (parseSkillFile, parseContextFile) over texts given *)
(* by their lengths: a text is a list of paragraphs, a paragraph a list of *)
(* sentences, a sentence its number of characters                          *)
(***************************************************************************)
MAX_CHUNK_TOKENS == 500
CHARS_PER_TOKEN == 4
MaxParagraphs == 2
MaxSentences == 2

\* Math.ceil(text.length / CHARS_PER_TOKEN)
chunkTokens(length) == (length + CHARS_PER_TOKEN - 1) \div CHARS_PER_TOKEN

SentenceLengths == {600, 1990, 2400}

Paragraphs ==
    UNION {[1..n -> SentenceLengths] : n \in 1..MaxSentences}

SectionTexts == UNION {[1..n -> Paragraphs] : n \in 1..MaxParagraphs}

RECURSIVE sumFrom(_, _)
sumFrom(lengths, i) ==
    IF i > Len(lengths) THEN 0 ELSE lengths[i] + sumFrom(lengths, i + 1)

\* the sentences of a paragraph are separated by one blank
paragraphLength(para) == sumFrom(para, 1) + (Len(para) - 1)

\* the paragraphs of a text are separated by one empty line
textLength(text) ==
    sumFrom([i \in 1..Len(text) |-> paragraphLength(text[i])], 1)
        + 2 * (Len(text) - 1)

\* the loop over para.split(/(?<=[.!?])\s+/): the chunks pushed and the
\* currentChunk that is left
RECURSIVE splitSentences(_, _, _, _, _)
splitSentences(para, i, currentChunk, out, maxChars) ==
    IF i > Len(para) THEN [chunks |-> out, currentChunk |-> currentChunk]
    ELSE IF currentChunk + para[i] + 1 <= maxChars
    THEN splitSentences(para, i + 1,
             (IF currentChunk > 0 THEN currentChunk + 1 ELSE 0) + para[i],
             out, maxChars)
    ELSE splitSentences(para, i + 1, para[i],
             IF currentChunk > 0 THEN Append(out, currentChunk) ELSE out,
             maxChars)

\* the loop over text.split(/\n\n+/)
RECURSIVE splitParagraphs(_, _, _, _, _)
splitParagraphs(text, i, currentChunk, out, maxChars) ==
    IF i > Len(text)
    THEN IF currentChunk > 0 THEN Append(out, currentChunk) ELSE out
    ELSE LET para == paragraphLength(text[i])
             pushed == IF currentChunk > 0 THEN Append(out, currentChunk)
                       ELSE out
         IN  IF currentChunk + para + 2 <= maxChars
             THEN splitParagraphs(text, i + 1,
                      (IF currentChunk > 0 THEN currentChunk + 2 ELSE 0)
                          + para,
                      out, maxChars)
             ELSE IF para > maxChars
             THEN LET r == splitSentences(text[i], 1, 0, pushed, maxChars)
                  IN  splitParagraphs(text, i + 1, r.currentChunk, r.chunks,
                                      maxChars)
             ELSE splitParagraphs(text, i + 1, para, pushed, maxChars)

\* splitByTokenLimit: the lengths of the pieces
splitByTokenLimit(text, maxTokens) ==
    IF textLength(text) <= maxTokens * CHARS_PER_TOKEN
    THEN << textLength(text) >>
    ELSE splitParagraphs(text, 1, 0, << >>, maxTokens * CHARS_PER_TOKEN)

SectionKinds ==
    {"problem", "trigger", "verification", "solution", "section", "context"}

\* the length of what is put before the section text, for a skill named
\* "s", a heading "h" and fewer than ten parts: `Problem:\n`,
\* `Trigger Conditions for s:\n`, `Verification for s:\n`,
\* `Solution for s (part 1/1):\n`, `h for s:\n`, `h:\n`
prefixLength(kind) ==
    CASE kind = "problem" -> 9
      [] kind = "trigger" -> 26
      [] kind = "verification" -> 20
      [] kind = "solution" -> 27
      [] kind = "section" -> 9
      [] kind = "context" -> 3

\* the lengths of the chunk contents a section becomes: Problem, Trigger
\* Conditions and Verification are one chunk each, the others are split
sectionChunks(kind, text) ==
    IF kind \in {"problem", "trigger", "verification"}
    THEN << prefixLength(kind) + textLength(text) >>
    ELSE LET pieces == splitByTokenLimit(text, MAX_CHUNK_TOKENS)
         IN  [i \in 1..Len(pieces) |-> prefixLength(kind) + pieces[i]]

InitChunker ==
    /\ disk = [p \in RelPaths |-> NoFile]
    /\ manifest = EmptyManifest
    /\ lastIndexed = 0
    /\ files = EmptyFiles
    /\ chunks = {}
    /\ storedModel = NoModel
    /\ currentModel = MODEL_NAME
    /\ now = 1
    /\ lastOp = Op("init")
    /\ results \in {[kind |-> k, text |-> t, chunkLengths |-> << >>] :
                       k \in SectionKinds, t \in SectionTexts}
    /\ embedder = NoEmbedder
    /\ txn = NoTxn

ParseSection ==
    /\ lastOp.op = "init"
    /\ results' = [results EXCEPT
                      !.chunkLengths = sectionChunks(results.kind,
                                                     results.text)]
    /\ lastOp' = Op("parseFile")
    /\ UNCHANGED <<disk, manifest, lastIndexed, files, chunks, storedModel,
                   currentModel, now, embedder, txn>>

NextChunker == ParseSection

SpecChunker == InitChunker /\ [][NextChunker]_vars

\* C38: every chunk the chunker emits has ceil(len(content)/4) <= 500
\* estimated tokens, the heading prefix counted, for every input
C38_ChunksWithinTokenBudget ==
    lastOp.op = "parseFile" =>
        \A i \in 1..Len(results.chunkLengths) :
            chunkTokens(results.chunkLengths[i]) <= MAX_CHUNK_TOKENS

(***************************************************************************)
(* saveKnowledge whose follow-up sync throws                               *)
(***************************************************************************)
\* the file is written, then syncProject throws while the new file is
\* embedded (the model cannot be loaded): the removals and the files
\* indexed before it are in the store, saveManifest is not reached, and
\* the catch block returns success: false with an empty path
SaveKnowledgeSyncThrows(name, type) ==
    LET filePath == knowledgeFile(name)
        written == [disk EXCEPT ![filePath] = formatKnowledgeContent(type)]
        s1 == checkModelConsistency(Current, currentModel)
        found == discoverFiles(ProjectRoot, written)
        plan == getFilesToIndex(ProjectRoot, written, s1.manifest, s1.store,
                                found)
    IN  /\ disk[filePath] = NoFile
        /\ disk' = written
        /\ \E before \in SUBSET (plan.toIndex
                                   \ {Join(ProjectRoot, filePath)}) :
              Install([s1 EXCEPT
                         !.store = indexAll(
                             removeAll(s1.store, plan.toRemove),
                             ProjectRoot, written, before, currentModel,
                             now)])
        /\ results' = NoResult
        /\ lastOp' = OpSave("saveFailed", type)
        /\ UNCHANGED <<currentModel, now, embedder, txn>>

NextSaveFails ==
    \/ \E p \in KnowledgePaths : \E c \in {"v1", "v2"} : WriteFile(p, c)
    \/ \E p \in KnowledgePaths : DeleteFile(p)
    \/ Tick
    \/ SyncProject
    \/ \E n \in SaveNames : \E t \in KnowledgeTypes : SaveKnowledge(n, t)
    \/ \E n \in SaveNames : \E t \in KnowledgeTypes :
           SaveKnowledgeSyncThrows(n, t)

SpecSaveFails == Init /\ [][NextSaveFails]_vars

\* C40: when saveKnowledge returns success=false, for a name collision or
\* for an error raised while writing or syncing, no new file has been
\* created under knowledge/
C40_FailedSaveCreatesNoFile ==
    [][lastOp'.op \in {"saveRefused", "saveFailed"} =>
         \A p \in RelPaths :
             StartsWith(p, "knowledge", "/") /\ disk[p] = NoFile
                 => disk'[p] = NoFile]_vars

(***************************************************************************)
(* Forgetting and what later syncs and searches do with a forgotten file   *)
(***************************************************************************)
NextPersist ==
    \/ \E p \in KnowledgePaths : \E c \in {"v1", "v2"} : WriteFile(p, c)
    \/ ChangeModel
    \/ SyncProject
    \/ ForgetKnowledge(1, undefined)
    \/ \E q \in Queries : Search(q, DEFAULT_LIMIT)

SpecPersist == Init /\ [][NextPersist]_vars

\* the file of path p enters the index in this step
EntersIndex(p) ==
    /\ lastOp'.op \in {"syncProject", "search"}
    /\ disk[p] # NoFile
    /\ ~files[Join(ProjectRoot, p)].present
    /\ files'[Join(ProjectRoot, p)].present

\* C39 as stated: a file that was forgotten and whose contents did not
\* change (its manifest entry is still the hash of its contents) is not
\* re-indexed by any later sync or search
C39_Original ==
    [][\A p \in KnowledgePaths :
          EntersIndex(p) =>
              \/ manifest[p] = NoHash
              \/ manifest[p] # computeHash(disk[p])]_vars

\* C39: a file that was forgotten and whose contents did not change is
\* not re-indexed by later syncs and searches of a build with the same
\* embedding model; it returns to the index only after its contents
\* changed or after a change of model erased the manifest
C39_ForgettingPersists ==
    [][\A p \in KnowledgePaths :
          EntersIndex(p) =>
              \/ manifest[p] = NoHash
              \/ manifest[p] # computeHash(disk[p])
              \/ modelMismatch(storedModel, currentModel)]_vars

C39_Witness ==
    /\ lastOp.op = "syncProject"
    /\ disk[KnowA] = "v1"
    /\ manifest[KnowA] = computeHash("v1")
    /\ ~files[Join(ProjectRoot, KnowA)].present
    /\ Join(ProjectRoot, KnowA) \in results.unchanged
    /\ files[Join(ProjectRoot, KnowB)].present
====
